---- MODULE Spec2Model ----
(***************************************************************************)
(* visual-query: the keyword grammar registry, the edge legality checker,  *)
(* the query store (nodes, edges, cascading effects), the validation       *)
(* engine and the graph-to-SQL generator.                                  *)
(*                                                                         *)
(* JavaScript values are modelled as follows.  A string is a TLA+ string   *)
(* (a sequence of characters), an array is a sequence, an object is a      *)
(* record/function whose DOMAIN holds exactly the keys that are set, so    *)
(* `x.k === undefined` is `"k" \notin DOMAIN x`.                           *)
(***************************************************************************)
EXTENDS Integers, Sequences, FiniteSets, TLC

VARIABLES
  nodes,          \* store.nodes: Node<SqlNodeData>[]
  edges,          \* store.edges: Edge[]
  queryError,     \* store.queryError: string | null
  nodeIdCounter,  \* module-level counter behind `node-${++nodeIdCounter}`
  connectionInfo, \* store.connectionInfo and store.schema, set and cleared together
  generatedSQL,   \* store.generatedSQL
  lastOp,         \* history: the store operation that produced this state
  call,           \* the last application of a pure function: its inputs and result
  queryResults,   \* store.queryResults
  isExecuting,    \* store.isExecuting
  timers,         \* the pending timeouts of the canvas's useEffect, as their closures
  inFlight,       \* execute requests sent and not yet answered
  issued,         \* history: the number of execute requests sent so far
  connections     \* the server's Map of active connections, by session id

loopVars ==
  <<queryResults, isExecuting, timers, inFlight, issued, connections>>
vars ==
  <<nodes, edges, queryError, nodeIdCounter, connectionInfo, generatedSQL, lastOp, call,
    loopVars>>
storeVars ==
  <<nodes, edges, queryError, nodeIdCounter, connectionInfo, generatedSQL, lastOp,
    loopVars>>

\* null / no value
Null == "<null>"

(***************************************************************************)
(* Generic sequence helpers (the Array methods the code uses)              *)
(***************************************************************************)
Range(s) == {s[i] : i \in DOMAIN s}

Includes(s, x) == \E i \in DOMAIN s : s[i] = x

(***************************************************************************)
(* Keyword grammar registry                                                *)
(***************************************************************************)
\* Object.values(sqlKeywords).flat(): every keyword descriptor, in source
\* order.  A descriptor without a `stage` key has no stage (undefined).
sqlKeywords ==
  <<
     [value |-> "SELECT", kind |-> "clause", stage |-> 10],
     [value |-> "DISTINCT", kind |-> "modifier", stage |-> 11],
     [value |-> "FROM", kind |-> "clause", stage |-> 20, requires |-> << [anyOf |-> <<"SELECT">>] >>],
     [value |-> "WHERE", kind |-> "clause", stage |-> 30, requires |-> << [anyOf |-> <<"FROM", "JOIN">>] >>],
     [value |-> "GROUP BY", kind |-> "clause", stage |-> 40, requires |-> << [anyOf |-> <<"FROM", "JOIN">>] >>],
     [value |-> "HAVING", kind |-> "clause", stage |-> 50, requires |-> << [anyOf |-> <<"GROUP BY", "AggregatePresent">>] >>],
     [value |-> "WINDOW", kind |-> "clause", stage |-> 55, requires |-> << [anyOf |-> <<"FROM", "JOIN">>] >>],
     [value |-> "ORDER BY", kind |-> "clause", stage |-> 60],
     [value |-> "LIMIT", kind |-> "pager", stage |-> 70],
     [value |-> "TOP", kind |-> "modifier", stage |-> 12],
     [value |-> "JOIN", kind |-> "join", stage |-> 21, requires |-> << [anyOf |-> <<"FROM">>] >>],
     [value |-> "INNER JOIN", kind |-> "join", stage |-> 21, requires |-> << [anyOf |-> <<"FROM">>] >>],
     [value |-> "LEFT JOIN", kind |-> "join", stage |-> 21, requires |-> << [anyOf |-> <<"FROM">>] >>],
     [value |-> "RIGHT JOIN", kind |-> "join", stage |-> 21, requires |-> << [anyOf |-> <<"FROM">>] >>],
     [value |-> "FULL OUTER JOIN", kind |-> "join", stage |-> 21, requires |-> << [anyOf |-> <<"FROM">>] >>],
     [value |-> "ON", kind |-> "operator"],
     [value |-> "UNION", kind |-> "set-op", stage |-> 80],
     [value |-> "UNION ALL", kind |-> "set-op", stage |-> 80],
     [value |-> "COUNT", kind |-> "aggregate"],
     [value |-> "SUM", kind |-> "aggregate"],
     [value |-> "AVG", kind |-> "aggregate"],
     [value |-> "MIN", kind |-> "aggregate"],
     [value |-> "MAX", kind |-> "aggregate"],
     [value |-> "AS", kind |-> "modifier"],
     [value |-> "AND", kind |-> "operator"],
     [value |-> "OR", kind |-> "operator"],
     [value |-> "NOT", kind |-> "operator"],
     [value |-> "=", kind |-> "operator"],
     [value |-> "<>", kind |-> "operator"],
     [value |-> "!=", kind |-> "operator"],
     [value |-> ">", kind |-> "operator"],
     [value |-> "<", kind |-> "operator"],
     [value |-> ">=", kind |-> "operator"],
     [value |-> "<=", kind |-> "operator"],
     [value |-> "BETWEEN", kind |-> "operator"],
     [value |-> "IN", kind |-> "operator"],
     [value |-> "LIKE", kind |-> "operator"],
     [value |-> "IS NULL", kind |-> "operator"],
     [value |-> "IS NOT NULL", kind |-> "operator"],
     [value |-> "INSERT INTO", kind |-> "clause"],
     [value |-> "UPDATE", kind |-> "clause"],
     [value |-> "DELETE", kind |-> "clause"],
     [value |-> "CREATE TABLE", kind |-> "clause"],
     [value |-> "DROP TABLE", kind |-> "clause"],
     [value |-> "ALTER TABLE", kind |-> "clause"],
     [value |-> "TRUNCATE", kind |-> "clause"]
  >>

Keywords == Range(sqlKeywords)

Keyword(v) == CHOOSE k \in Keywords : k.value = v

HasStage(ref) == "stage" \in DOMAIN ref

KIND_GRAPH ==
  [ clause    |-> {"join", "clause", "pager", "set-op", "modifier"},
    join      |-> {"join", "clause", "pager", "set-op"},
    operator  |-> {"operator", "literal"},
    aggregate |-> {"modifier", "operator", "literal"},
    modifier  |-> {"clause", "join", "pager", "set-op", "operator"},
    set_op    |-> {"clause", "set-op", "pager"},
    pager     |-> {"set-op"},
    literal   |-> {"operator", "modifier"},
    order_by  |-> {"pager"} ]

\* KIND_GRAPH[kind] ?? []
KindsAfter(kind) ==
  CASE kind = "set-op"   -> KIND_GRAPH.set_op
    [] kind = "order-by" -> KIND_GRAPH.order_by
    [] kind \in DOMAIN KIND_GRAPH -> KIND_GRAPH[kind]
    [] OTHER -> {}

StagedKinds == {"clause", "pager", "set-op"}

\* A plausible slip: stage ordering enforced only when BOTH endpoints are of a
\* staged kind.
allowedEdgeBothStaged(from, to) ==
  /\ to.kind \in KindsAfter(from.kind)
  /\ LET staged == from.kind \in StagedKinds /\ to.kind \in StagedKinds
     IN  ~ ( /\ staged
             /\ HasStage(from) /\ HasStage(to)
             /\ to.kind # "modifier"
             /\ to.stage < from.stage )

\* A plausible slip: the exemption of modifier targets from stage ordering
\* forgotten.
allowedEdgeNoModifierExemption(from, to) ==
  /\ to.kind \in KindsAfter(from.kind)
  /\ LET staged == from.kind \in StagedKinds \/ to.kind \in StagedKinds
     IN  ~ ( /\ staged
             /\ HasStage(from) /\ HasStage(to)
             /\ to.stage < from.stage )

allowedEdge(from, to) ==
  /\ to.kind \in KindsAfter(from.kind)
  /\ LET staged == from.kind \in StagedKinds \/ to.kind \in StagedKinds
     IN  ~ ( /\ staged
             /\ HasStage(from) /\ HasStage(to)
             /\ to.kind # "modifier"
             /\ to.stage < from.stage )

\* The NodeRef that onConnect builds from a node, and that of a registry keyword.
RefOf(meta) ==
  IF HasStage(meta)
  THEN [value |-> meta.value, kind |-> meta.kind, stage |-> meta.stage]
  ELSE [value |-> meta.value, kind |-> meta.kind]

(***************************************************************************)
(* Node configuration registry: cascading effect rules                     *)
(***************************************************************************)
JoinKeywords == {"INNER JOIN", "LEFT JOIN", "RIGHT JOIN", "FULL OUTER JOIN", "JOIN"}

\* nodeConfigRegistry[label].effects; an effect target without `configKey` /
\* `newValue` leaves those keys out.  No rule of the registry has a function
\* newValue or a customHandler.
SelectEffects ==
  << [ trigger |-> [nodeValue |-> "SELECT", configKey |-> "selectedColumns"],
       targets |-> << [targetNodeValues |-> {"FROM"}, action |-> "validate"] >> ] >>

FromEffects ==
  << [ trigger |-> [nodeValue |-> "FROM", configKey |-> "selectedTable"],
       targets |->
         << [targetNodeValues |-> {"SELECT"}, action |-> "reset",
             configKey |-> "selectedColumns", newValue |-> <<>>],
            [targetNodeValues |-> {"WHERE", "HAVING"}, action |-> "reset",
             configKey |-> "conditions", newValue |-> <<>>],
            [targetNodeValues |-> JoinKeywords, action |-> "validate"] >> ] >>

\* config.effects of a keyword, <<>> standing for `!config?.effects`
EffectsOf(label) ==
  CASE label = "SELECT" -> SelectEffects
    [] label = "FROM"   -> FromEffects
    [] OTHER            -> <<>>

(***************************************************************************)
(* Objects                                                                 *)
(***************************************************************************)
\* { ...obj, [key]: value }
SetKey(obj, key, value) ==
  [k \in (DOMAIN obj) \cup {key} |-> IF k = key THEN value ELSE obj[k]]

\* { ...obj, ...patch } where patch is the list of the patch's own
\* <<key, value>> entries in insertion order (Object.keys order)
RECURSIVE Merge(_, _)
Merge(obj, patch) ==
  IF patch = <<>> THEN obj
  ELSE Merge(SetKey(obj, Head(patch)[1], Head(patch)[2]), Tail(patch))

EmptyObj == [k \in {} |-> Null]

\* the `null` a function returning a node may return
NullNode == [id |-> 0]

\* { ...node, data: { ...node.data, config: c } }
WithConfig(node, c) == [node EXCEPT !.data.config = c]

(***************************************************************************)
(* Effect propagator                                                       *)
(***************************************************************************)
\* A plausible slip: a reset that accumulates onto the old value instead of
\* setting the absolute value.
applyEffectAccumulating(triggerNode, targetNode, target) ==
  CASE target.action = "reset" /\ "configKey" \in DOMAIN target ->
         LET old == IF target.configKey \in DOMAIN targetNode.data.config
                    THEN targetNode.data.config[target.configKey] ELSE <<>>
         IN WithConfig(targetNode,
              SetKey(targetNode.data.config, target.configKey, old \o <<"reset">>))
    [] target.action = "validate" -> targetNode
    [] OTHER -> NullNode

\* A plausible slip: the target's config replaced by the written key alone
\* (the spread of the old config forgotten).
applyEffectReplacingConfig(triggerNode, targetNode, target) ==
  CASE /\ target.action \in {"reset", "update"}
       /\ "configKey" \in DOMAIN target
       /\ "newValue" \in DOMAIN target ->
         WithConfig(targetNode, SetKey(EmptyObj, target.configKey, target.newValue))
    [] target.action = "validate" -> targetNode
    [] OTHER -> NullNode

\* applyEffect: the updated target node, or NullNode (null).  newValue is a literal in
\* every rule modelled; the `custom` action has no handler and falls through.
applyEffect(triggerNode, targetNode, target) ==
  CASE target.action = "reset" /\ "configKey" \in DOMAIN target ->
         WithConfig(targetNode,
           SetKey(targetNode.data.config, target.configKey, target.newValue))
    [] /\ target.action = "update"
       /\ "configKey" \in DOMAIN target
       /\ "newValue" \in DOMAIN target ->
         WithConfig(targetNode,
           SetKey(targetNode.data.config, target.configKey, target.newValue))
    [] target.action = "validate" -> targetNode
    [] OTHER -> NullNode

\* updatedNodes.map((n) => n.id === updatedNode.id ? updatedNode : n)
ReplaceNode(ns, updatedNode) ==
  [i \in DOMAIN ns |-> IF ns[i].id = updatedNode.id THEN updatedNode ELSE ns[i]]

\* the inner loop over targetNodes; acc = [updatedNodes, hasChanges]
RECURSIVE ApplyToTargets(_, _, _, _)
ApplyToTargets(triggerNode, targetNodes, target, acc) ==
  IF targetNodes = <<>> THEN acc
  ELSE LET updatedNode == applyEffect(triggerNode, Head(targetNodes), target)
           next == IF updatedNode = NullNode THEN acc
                   ELSE [updatedNodes |-> ReplaceNode(acc.updatedNodes, updatedNode),
                         hasChanges |-> TRUE]
       IN ApplyToTargets(triggerNode, Tail(targetNodes), target, next)

\* A plausible slip: find() in place of filter(), only the first matching node.
TargetNodesFirstOnly(ns, target) ==
  LET hits == SelectSeq(ns, LAMBDA n : n.data.label \in target.targetNodeValues)
  IN IF hits = <<>> THEN <<>> ELSE <<Head(hits)>>

\* updatedNodes.filter((node) => target.targetNodeValues.includes(node.data.label))
RECURSIVE TargetNodes(_, _)
TargetNodes(ns, target) ==
  IF ns = <<>> THEN <<>>
  ELSE IF Head(ns).data.label \in target.targetNodeValues
       THEN <<Head(ns)>> \o TargetNodes(Tail(ns), target)
       ELSE TargetNodes(Tail(ns), target)

\* A plausible slip: the targets of a rule applied last to first.
RECURSIVE ApplyTargetsReversed(_, _, _)
ApplyTargetsReversed(triggerNode, targets, acc) ==
  IF targets = <<>> THEN acc
  ELSE LET later == ApplyTargetsReversed(triggerNode, Tail(targets), acc)
       IN ApplyToTargets(triggerNode, TargetNodes(later.updatedNodes, Head(targets)),
                         Head(targets), later)

RECURSIVE ApplyTargets(_, _, _)
ApplyTargets(triggerNode, targets, acc) ==
  IF targets = <<>> THEN acc
  ELSE ApplyTargets(triggerNode, Tail(targets),
         ApplyToTargets(triggerNode, TargetNodes(acc.updatedNodes, Head(targets)),
                        Head(targets), acc))

RECURSIVE ApplyEffects(_, _, _)
ApplyEffects(triggerNode, effects, acc) ==
  IF effects = <<>> THEN acc
  ELSE ApplyEffects(triggerNode, Tail(effects),
         ApplyTargets(triggerNode, Head(effects).targets, acc))

\* config.effects.filter(trigger matches the node's label and the changed key)
RECURSIVE RelevantEffects(_, _, _)
RelevantEffects(effects, label, changedConfigKey) ==
  IF effects = <<>> THEN <<>>
  ELSE LET e == Head(effects)
           rest == RelevantEffects(Tail(effects), label, changedConfigKey)
       IN IF e.trigger.nodeValue = label /\ e.trigger.configKey = changedConfigKey
          THEN <<e>> \o rest ELSE rest

\* A plausible slip: a written target fires the rules of its own keyword for
\* the written key (one level deep).
CascadeKey(acc, before, after, key) ==
  IF /\ key \in DOMAIN after.data.config
     /\ \/ key \notin DOMAIN before.data.config
        \/ after.data.config[key] # before.data.config[key]
  THEN ApplyEffects(after,
         RelevantEffects(EffectsOf(after.data.label), after.data.label, key),
         [updatedNodes |-> acc, hasChanges |-> FALSE]).updatedNodes
  ELSE acc

RECURSIVE CascadeOnce(_, _, _, _)
CascadeOnce(acc, before, after, i) ==
  IF i = 0 THEN acc
  ELSE CascadeKey(
         CascadeKey(CascadeOnce(acc, before, after, i - 1),
                    before[i], after[i], "selectedTable"),
         before[i], after[i], "selectedColumns")

ExecuteRulesCascading(effects, triggerNode, changedConfigKey, contextNodes) ==
  LET r == ApplyEffects(triggerNode,
             RelevantEffects(effects, triggerNode.data.label, changedConfigKey),
             [updatedNodes |-> contextNodes, hasChanges |-> FALSE])
  IN [updatedNodes |-> CascadeOnce(r.updatedNodes, contextNodes, r.updatedNodes,
                                   Len(contextNodes)),
      shouldRegenerate |-> r.hasChanges]

\* executeNodeEffects past its early return, for a keyword whose
\* config.effects is `effects`: [updatedNodes, shouldRegenerate]
ExecuteRules(effects, triggerNode, changedConfigKey, contextNodes) ==
  LET r == ApplyEffects(triggerNode,
             RelevantEffects(effects, triggerNode.data.label, changedConfigKey),
             [updatedNodes |-> contextNodes, hasChanges |-> FALSE])
  IN [updatedNodes |-> r.updatedNodes, shouldRegenerate |-> r.hasChanges]

\* executeNodeEffects(triggerNode, changedConfigKey, context) with
\* context.nodes = contextNodes: [updatedNodes, shouldRegenerate]
executeNodeEffects(triggerNode, changedConfigKey, contextNodes) ==
  LET effects == EffectsOf(triggerNode.data.label)
  IN IF effects = <<>>
     THEN [updatedNodes |-> contextNodes, shouldRegenerate |-> FALSE]
     ELSE ExecuteRules(effects, triggerNode, changedConfigKey, contextNodes)
(***************************************************************************)
(* Query store                                                             *)
(***************************************************************************)
MaxNodes == 3
MaxEdges == 2

\* The keywords dragged from the sidebar in this model.
Palette == {"SELECT", "FROM", "LIMIT"}

Cond1 == [id |-> "c1", column |-> "public.t.c1", operator |-> "=", value |-> "5"]

\* The config patches the node components pass to updateNodeData, each the list
\* of its <<key, value>> entries.
Patches(label) ==
  CASE label = "SELECT" -> { << <<"selectedColumns", <<"public.t.c1">> >> >> }
    [] label = "FROM"   -> { << <<"selectedTable", "public.t">> >>,
                             << <<"selectedTable", "public.u">> >> }
    [] label \in {"WHERE", "HAVING"} ->
                           { << <<"conditions", <<Cond1>> >> >> }
    [] OTHER            -> {}

\* nodes.find((n) => n.id === id); NullNode when there is none
RECURSIVE FindNode(_, _)
FindNode(ns, id) ==
  IF ns = <<>> THEN NullNode
  ELSE IF Head(ns).id = id THEN Head(ns) ELSE FindNode(Tail(ns), id)

NodeIds(ns) == {ns[i].id : i \in DOMAIN ns}

\* initialConfig of addNode: the defaultValue of every field that declares one
InitialConfig(label) ==
  CASE label = "SELECT"   -> [selectedColumns |-> <<>>]
    [] label \in {"WHERE", "HAVING"} -> [conditions |-> <<>>]
    [] label = "ORDER BY" -> [orderColumns |-> <<>>]
    [] OTHER              -> EmptyObj

NewNode(id, keyword) ==
  [ id   |-> id,
    data |-> [ label  |-> keyword.value,
               kind   |-> keyword.kind,
               meta   |-> keyword,
               config |-> InitialConfig(keyword.value) ] ]

\* the loop of updateNodeData over Object.keys(config)
RECURSIVE EffectsPerKey(_, _, _)
EffectsPerKey(triggerNode, keys, updatedNodes) ==
  IF keys = <<>> THEN updatedNodes
  ELSE LET result == executeNodeEffects(triggerNode, Head(keys), updatedNodes)
       IN EffectsPerKey(triggerNode, Tail(keys),
            IF result.shouldRegenerate THEN result.updatedNodes ELSE updatedNodes)

\* Object.keys(config): each key once, at its first insertion
RECURSIVE ObjectKeys(_)
ObjectKeys(patch) ==
  IF patch = <<>> THEN <<>>
  ELSE LET init == ObjectKeys(SubSeq(patch, 1, Len(patch) - 1))
           k == patch[Len(patch)][1]
       IN IF Includes(init, k) THEN init ELSE Append(init, k)

\* the new state.nodes of updateNodeData(nodeId, config)
UpdatedNodes(ns, nodeId, patch) ==
  LET merged == [i \in DOMAIN ns |->
                   IF ns[i].id = nodeId
                   THEN WithConfig(ns[i], Merge(ns[i].data.config, patch))
                   ELSE ns[i]]
      triggerNode == FindNode(merged, nodeId)
  IN IF triggerNode = NullNode THEN merged
     ELSE EffectsPerKey(triggerNode, ObjectKeys(patch), merged)

\* A plausible slip: only the outgoing edges of the removed node are dropped.
EdgesWithoutSource(es, nodeId) ==
  SelectSeq(es, LAMBDA e : e.source # nodeId)

\* state.edges.filter((e) => e.source !== nodeId && e.target !== nodeId)
RECURSIVE EdgesWithout(_, _)
EdgesWithout(es, nodeId) ==
  IF es = <<>> THEN <<>>
  ELSE IF Head(es).source # nodeId /\ Head(es).target # nodeId
       THEN <<Head(es)>> \o EdgesWithout(Tail(es), nodeId)
       ELSE EdgesWithout(Tail(es), nodeId)

RECURSIVE NodesWithout(_, _)
NodesWithout(ns, nodeId) ==
  IF ns = <<>> THEN <<>>
  ELSE IF Head(ns).id # nodeId
       THEN <<Head(ns)>> \o NodesWithout(Tail(ns), nodeId)
       ELSE NodesWithout(Tail(ns), nodeId)

\* addEdge(connection, edges) of @xyflow/react: the edge is appended unless an
\* edge with the same source and target (and handles) exists already.
addEdge(connection, es) ==
  IF \E i \in DOMAIN es : es[i].source = connection.source
                          /\ es[i].target = connection.target
  THEN es
  ELSE Append(es, [source |-> connection.source, target |-> connection.target])

ConnectError(sourceNode, targetNode) ==
  "Cannot connect " \o sourceNode.data.label \o " to " \o targetNode.data.label
    \o ". Invalid edge based on SQL semantics."

\* A plausible slip: the legality check of onConnect inverted away (every
\* connection accepted).
ConnectionAllowedAlways(sourceNode, targetNode) == TRUE

\* isAllowed of onConnect
ConnectionAllowed(sourceNode, targetNode) ==
  allowedEdge(RefOf(sourceNode.data.meta), RefOf(targetNode.data.meta))

\* connectionInfo: null, schema: null
NoConnection == [sessionId |-> Null]

\* queryResults: null
NoResults == [rows |-> Null]

StoreInit ==
  /\ nodes = <<>>
  /\ edges = <<>>
  /\ queryError = Null
  /\ nodeIdCounter = 0
  /\ connectionInfo = NoConnection
  /\ generatedSQL = ""
  /\ lastOp = [op |-> "init"]
  /\ queryResults = NoResults
  /\ isExecuting = FALSE
  /\ timers = {}
  /\ inFlight = {}
  /\ issued = 0
  /\ connections = {}

addNode(keyword) ==
  /\ nodeIdCounter < MaxNodes
  /\ nodeIdCounter' = nodeIdCounter + 1
  /\ nodes' = Append(nodes, NewNode(nodeIdCounter + 1, keyword))
  /\ lastOp' = [op |-> "addNode"]
  /\ UNCHANGED <<edges, queryError>>

removeNode(nodeId) ==
  /\ nodes' = NodesWithout(nodes, nodeId)
  /\ edges' = EdgesWithout(edges, nodeId)
  /\ lastOp' = [op |-> "removeNode", dropped |-> Len(edges) - Len(edges')]
  /\ UNCHANGED <<queryError, nodeIdCounter>>

updateNodeData(nodeId, patch) ==
  /\ nodes' = UpdatedNodes(nodes, nodeId, patch)
  /\ lastOp' = [op |-> "updateNodeData",
                cascaded |-> \E i \in DOMAIN nodes :
                               nodes[i].id # nodeId /\ nodes'[i] # nodes[i]]
  /\ UNCHANGED <<edges, queryError, nodeIdCounter>>

\* onConnect(connection); React Flow hands it the ids of two nodes on the canvas
onConnect(source, target) ==
  LET sourceNode == FindNode(nodes, source)
      targetNode == FindNode(nodes, target)
  IN /\ lastOp' = [op |-> "onConnect"]
     /\ UNCHANGED <<nodes, nodeIdCounter>>
     /\ IF sourceNode = NullNode \/ targetNode = NullNode
        THEN UNCHANGED <<edges, queryError>>
        ELSE IF ~ConnectionAllowed(sourceNode, targetNode)
             THEN /\ queryError' = ConnectError(sourceNode, targetNode)
                  /\ UNCHANGED edges
             ELSE /\ edges' = addEdge([source |-> source, target |-> target], edges)
                  /\ UNCHANGED queryError

\* setTimeout(() => setQueryError(null), 3000) armed by a rejected onConnect
clearQueryError ==
  /\ queryError # Null
  /\ queryError' = Null
  /\ lastOp' = [op |-> "clearQueryError"]
  /\ UNCHANGED <<nodes, edges, nodeIdCounter>>

(***************************************************************************)
(* Validation engine                                                       *)
(*                                                                         *)
(* The validators dispatch on the JavaScript type of the value, so a value *)
(* under validation carries its type: [t |-> "undefined"], [t |-> "null"], *)
(* [t |-> "string", s |-> s], [t |-> "number", n |-> n] and                *)
(* [t |-> "array", a |-> <<...>>].                                         *)
(***************************************************************************)
JsUndefined == [t |-> "undefined"]
JsNull == [t |-> "null"]
JsString(s) == [t |-> "string", s |-> s]
JsNumber(n) == [t |-> "number", n |-> n]
JsArray(a) == [t |-> "array", a |-> a]

\* config?.[key]
JsGet(config, key) == IF key \in DOMAIN config THEN config[key] ELSE JsUndefined

\* a === b: two arrays are never the same object here (one comes from the
\* node's config, the other from the registry literal)
StrictEquals(a, b) == a.t = b.t /\ a.t # "array" /\ a = b

\* evaluateConditional(fieldValue, expectedValue, operator)
evaluateConditional(fieldValue, expectedValue, operator) ==
  CASE operator = "equals"      -> StrictEquals(fieldValue, expectedValue)
    [] operator = "notEquals"   -> ~StrictEquals(fieldValue, expectedValue)
    [] operator = "includes"    ->
         IF fieldValue.t = "array"
         THEN \E i \in DOMAIN fieldValue.a : StrictEquals(fieldValue.a[i], expectedValue)
         ELSE FALSE
    [] operator = "notIncludes" ->
         IF fieldValue.t = "array"
         THEN ~\E i \in DOMAIN fieldValue.a : StrictEquals(fieldValue.a[i], expectedValue)
         ELSE TRUE
    [] OTHER -> FALSE

\* value.length of a string or an array
JsLength(value) == IF value.t = "string" THEN Len(value.s) ELSE Len(value.a)

HasLength(value) == value.t \in {"string", "array"}

\* validator.value || 0
MinBound(validator) == IF "value" \in DOMAIN validator THEN validator.value ELSE 0

\* validator.value || Infinity: bounded is FALSE for Infinity (no bound, or 0)
MaxBound(validator) ==
  IF "value" \in DOMAIN validator /\ validator.value # 0
  THEN [bounded |-> TRUE, value |-> validator.value]
  ELSE [bounded |-> FALSE]

Above(n, bound) == bound.bounded /\ n > bound.value

Letters == { "a", "b", "c", "d", "e", "f", "g", "h", "i", "j", "k", "l", "m",
             "n", "o", "p", "q", "r", "s", "t", "u", "v", "w", "x", "y", "z",
             "A", "B", "C", "D", "E", "F", "G", "H", "I", "J", "K", "L", "M",
             "N", "O", "P", "Q", "R", "S", "T", "U", "V", "W", "X", "Y", "Z" }

Digits == {"0", "1", "2", "3", "4", "5", "6", "7", "8", "9"}

\* /^[a-zA-Z_][a-zA-Z0-9_]*$/.test(s), the pattern of isValidIdentifier, which
\* stands for the RegExp a regex validator carries
RegexTest(pattern, s) ==
  /\ pattern = "identifier"
  /\ Len(s) > 0
  /\ SubSeq(s, 1, 1) \in Letters \cup {"_"}
  /\ \A i \in 2..Len(s) : SubSeq(s, i, i) \in Letters \cup Digits \cup {"_"}

\* validator.validate(value, allConfig, context) for the predicates a custom
\* validator carries here: typeValidators.isPositive (value > 0) and the
\* constant predicates
CustomValidate(validate, value) ==
  CASE validate = "isPositive" -> value.t = "number" /\ value.n > 0
    [] validate = "never"      -> FALSE
    [] OTHER                   -> TRUE

\* runValidator: does the validator fail (return its message)?
ValidatorFails(validator, value) ==
  CASE validator.type = "required" ->
         \/ value.t \in {"undefined", "null"}
         \/ value.t = "string" /\ value.s = ""
         \/ value.t = "array" /\ Len(value.a) = 0
    [] validator.type = "min" ->
         \/ value.t = "number" /\ value.n < MinBound(validator)
         \/ HasLength(value) /\ JsLength(value) < MinBound(validator)
    [] validator.type = "max" ->
         \/ value.t = "number" /\ Above(value.n, MaxBound(validator))
         \/ HasLength(value) /\ Above(JsLength(value), MaxBound(validator))
    [] validator.type = "regex" ->
         /\ value.t = "string"
         /\ "value" \in DOMAIN validator
         /\ ~RegexTest(validator.value, value.s)
    [] validator.type = "custom" ->
         /\ "validate" \in DOMAIN validator
         /\ ~CustomValidate(validator.validate, value)
    [] OTHER -> FALSE

\* runValidator(validator, value, options): <<message>> or <<>> (null)
runValidator(validator, value) ==
  IF ValidatorFails(validator, value) THEN <<validator.message>> ELSE <<>>

\* A plausible slip: validation of a field stopping at its first failing
\* validator.
validateFieldFirstOnly(value, validators) ==
  LET failing == SelectSeq(validators, LAMBDA v : ValidatorFails(v, value))
  IN IF failing = <<>> THEN <<>> ELSE <<failing[1].message>>

\* validateField(fieldKey, value, validators, options): the messages
RECURSIVE validateField(_, _)
validateField(value, validators) ==
  IF validators = <<>> THEN <<>>
  ELSE runValidator(Head(validators), value) \o validateField(value, Tail(validators))

FieldValidators(field) ==
  IF "validators" \in DOMAIN field THEN field.validators ELSE <<>>

\* shouldShow of validateNode for a field
ShouldShow(field, config) ==
  "conditional" \in DOMAIN field =>
    evaluateConditional(
      JsGet(config, field.conditional.field),
      field.conditional.value,
      IF "operator" \in DOMAIN field.conditional
      THEN field.conditional.operator ELSE "equals")

FieldErrors(nodeId, field, config) ==
  LET msgs == validateField(JsGet(config, field.key), FieldValidators(field))
  IN [i \in DOMAIN msgs |->
        [nodeId |-> nodeId, fieldKey |-> field.key, message |-> msgs[i]]]

\* A plausible slip: the conditional-visibility check left out of the loop.
RECURSIVE ValidateFieldsNoSkip(_, _, _)
ValidateFieldsNoSkip(nodeId, fields, config) ==
  IF fields = <<>> THEN <<>>
  ELSE FieldErrors(nodeId, Head(fields), config)
         \o ValidateFieldsNoSkip(nodeId, Tail(fields), config)

\* the loop of validateNode over config.fields, for a node with this id and
\* (typed) config
RECURSIVE ValidateFields(_, _, _)
ValidateFields(nodeId, fields, config) ==
  IF fields = <<>> THEN <<>>
  ELSE (IF ShouldShow(Head(fields), config)
        THEN FieldErrors(nodeId, Head(fields), config) ELSE <<>>)
         \o ValidateFields(nodeId, Tail(fields), config)

(***************************************************************************)
(* Strings                                                                 *)
(***************************************************************************)
CharAt(s, i) == SubSeq(s, i, i)

\* s.split(sep) for a one-character separator
RECURSIVE Split(_, _)
Split(s, sep) ==
  IF \E i \in 1..Len(s) : CharAt(s, i) = sep
  THEN LET p == CHOOSE i \in 1..Len(s) :
                  /\ CharAt(s, i) = sep
                  /\ \A j \in 1..(i - 1) : CharAt(s, j) # sep
       IN <<SubSeq(s, 1, p - 1)>> \o Split(SubSeq(s, p + 1, Len(s)), sep)
  ELSE <<s>>

\* parts.join(sep)
RECURSIVE Join(_, _)
Join(parts, sep) ==
  IF parts = <<>> THEN ""
  ELSE IF Len(parts) = 1 THEN parts[1]
       ELSE parts[1] \o sep \o Join(Tail(parts), sep)

\* s.split(".").pop() || s
LastSegment(s) ==
  LET parts == Split(s, ".")
  IN IF parts[Len(parts)] # "" THEN parts[Len(parts)] ELSE s

Quoted(s) == "\"" \o s \o "\""

\* obj.key || "" for a string-valued key
StrOr(obj, key) == IF key \in DOMAIN obj THEN obj[key] ELSE ""

\* A plausible slip: a key tested for presence only, so that "" counts as set.
HasKey(obj, key) == key \in DOMAIN obj

\* is obj.key a non-empty string?
Truthy(obj, key) == key \in DOMAIN obj /\ obj[key] # ""

\* s.replace("SELECT", "SELECT DISTINCT") on a string that starts with "SELECT"
\* (the first occurrence; sqlParts.SELECT always starts with it)
ReplaceLeadingSelect(s) == "SELECT DISTINCT" \o SubSeq(s, 7, Len(s))

(***************************************************************************)
(* Predicate-tree compiler                                                 *)
(***************************************************************************)
IsGroup(item) == "type" \in DOMAIN item /\ item.type = "group"

\* the SQL of one condition that has a column and an operator
ConditionSQL(condition) ==
  LET colName == Quoted(LastSegment(condition.column))
      op == condition.operator
      value == StrOr(condition, "value")
      values == Split(value, ",")
  IN CASE op \in {"IS NULL", "IS NOT NULL"} -> colName \o " " \o op
       [] op = "LIKE"    -> colName \o " LIKE '" \o value \o "'"
       [] op = "IN"      -> colName \o " IN (" \o value \o ")"
       [] op = "BETWEEN" ->
            colName \o " BETWEEN '" \o values[1] \o "' AND '"
              \o (IF Len(values) >= 2 THEN values[2] ELSE "") \o "'"
       [] OTHER          -> colName \o " " \o op \o " '" \o value \o "'"

\* A plausible slip: a group prefixed with its own inner connective (logicalOp)
\* instead of the connective that joins it to its preceding sibling.
RECURSIVE PredicatePartsInnerOp(_)
PredicatePartsInnerOp(conditions) ==
  IF conditions = <<>> THEN <<>>
  ELSE LET item == Head(conditions)
           rest == PredicatePartsInnerOp(Tail(conditions))
       IN IF IsGroup(item)
          THEN LET groupSQL == Join(PredicatePartsInnerOp(item.conditions), " ")
               IN IF groupSQL # ""
                  THEN <<(IF Truthy(item, "logicalOp")
                          THEN item.logicalOp \o " " ELSE "")
                         \o "(" \o groupSQL \o ")">> \o rest
                  ELSE rest
          ELSE IF ~Truthy(item, "column") \/ ~Truthy(item, "operator") THEN rest
               ELSE <<(IF Truthy(item, "logicalOp")
                       THEN item.logicalOp \o " " ELSE "")
                      \o ConditionSQL(item)>> \o rest

\* the `parts` array of buildPredicateSQL(conditions)
RECURSIVE PredicateParts(_)
PredicateParts(conditions) ==
  IF conditions = <<>> THEN <<>>
  ELSE LET item == Head(conditions)
           rest == PredicateParts(Tail(conditions))
       IN IF IsGroup(item)
          THEN LET groupSQL == Join(PredicateParts(item.conditions), " ")
               IN IF groupSQL # ""
                  THEN <<(IF Truthy(item, "parentLogicalOp")
                          THEN item.parentLogicalOp \o " " ELSE "")
                         \o "(" \o groupSQL \o ")">> \o rest
                  ELSE rest
          ELSE IF ~Truthy(item, "column") \/ ~Truthy(item, "operator") THEN rest
               ELSE <<(IF Truthy(item, "logicalOp")
                       THEN item.logicalOp \o " " ELSE "")
                      \o ConditionSQL(item)>> \o rest

buildPredicateSQL(conditions) == Join(PredicateParts(conditions), " ")

(***************************************************************************)
(* Graph-to-SQL compiler                                                   *)
(***************************************************************************)
\* schema: null, or the tables with their columns
NoSchema == [null |-> TRUE]

\* schema?.tables.flatMap(table => table.columns.map(col =>
\*   `${table.schema}.${table.name}.${col.name}`)) || []
RECURSIVE TableColumns(_, _)
TableColumns(table, cols) ==
  IF cols = <<>> THEN <<>>
  ELSE <<table.schema \o "." \o table.name \o "." \o Head(cols).name>>
         \o TableColumns(table, Tail(cols))

RECURSIVE AllColumns(_)
AllColumns(tables) ==
  IF tables = <<>> THEN <<>>
  ELSE TableColumns(Head(tables), Head(tables).columns) \o AllColumns(Tail(tables))

allAvailableColumns(schema) ==
  IF "tables" \in DOMAIN schema THEN AllColumns(schema.tables) ELSE <<>>

NoSelectSentinel == "-- Add a SELECT node to start building your query"

\* nodes.find((n) => n.data.label === "SELECT" && n.data.kind === "clause")
RECURSIVE FindSelect(_)
FindSelect(ns) ==
  IF ns = <<>> THEN NullNode
  ELSE IF Head(ns).data.label = "SELECT" /\ Head(ns).data.kind = "clause"
       THEN Head(ns) ELSE FindSelect(Tail(ns))

\* adjacencyMap.get(nodeId) || []: the targets of the node's edges, in edge order
RECURSIVE Children(_, _)
Children(es, nodeId) ==
  IF es = <<>> THEN <<>>
  ELSE IF Head(es).source = nodeId
       THEN <<Head(es).target>> \o Children(Tail(es), nodeId)
       ELSE Children(Tail(es), nodeId)

\* children.map(find).filter(found)
RECURSIVE FoundNodes(_, _)
FoundNodes(ns, ids) ==
  IF ids = <<>> THEN <<>>
  ELSE LET n == FindNode(ns, Head(ids))
       IN IF n = NullNode THEN FoundNodes(ns, Tail(ids))
          ELSE <<n>> \o FoundNodes(ns, Tail(ids))

\* a.data.meta.stage || 0
StageOrZero(node) ==
  IF HasStage(node.data.meta) THEN node.data.meta.stage ELSE 0

\* insertion of one node into a list sorted by StageOrZero, after its equals
RECURSIVE InsertByStage(_, _)
InsertByStage(sorted, n) ==
  IF sorted = <<>> THEN <<n>>
  ELSE IF StageOrZero(n) < StageOrZero(Head(sorted))
       THEN <<n>> \o sorted
       ELSE <<Head(sorted)>> \o InsertByStage(Tail(sorted), n)

\* A plausible slip: the children descended as the edges list them, unsorted.
SortByStageKeepingEdgeOrder(ns) == ns

\* .sort((a, b) => (a.data.meta.stage || 0) - (b.data.meta.stage || 0)):
\* Array.prototype.sort is stable
RECURSIVE SortByStage(_)
SortByStage(ns) ==
  IF ns = <<>> THEN <<>>
  ELSE InsertByStage(SortByStage(SubSeq(ns, 1, Len(ns) - 1)), ns[Len(ns)])

sortedChildren(ns, es, nodeId) == SortByStage(FoundNodes(ns, Children(es, nodeId)))

\* traverse(nodeId) and the forEach over its sorted children; st is
\* [visitedNodes, orderedNodes]
RECURSIVE traverse(_, _, _, _), TraverseEach(_, _, _, _)
traverse(ns, es, nodeId, st) ==
  IF nodeId \in st.visitedNodes THEN st
  ELSE LET node == FindNode(ns, nodeId)
           entered == [ visitedNodes |-> st.visitedNodes \cup {nodeId},
                        orderedNodes |-> IF node = NullNode THEN st.orderedNodes
                                         ELSE Append(st.orderedNodes, node) ]
       IN TraverseEach(ns, es, sortedChildren(ns, es, nodeId), entered)

TraverseEach(ns, es, children, st) ==
  IF children = <<>> THEN st
  ELSE TraverseEach(ns, es, Tail(children), traverse(ns, es, Head(children).id, st))

orderedNodes(ns, es, selectNode) ==
  traverse(ns, es, selectNode.id,
           [visitedNodes |-> {}, orderedNodes |-> <<>>]).orderedNodes

\* the table a dotted column path names: parts[1] of schema.table.column,
\* parts[0] of table.column; <<>> when the path has one part
InferredFrom(firstCol) ==
  LET parts == Split(firstCol, ".")
  IN IF Len(parts) >= 3 THEN <<"FROM " \o Quoted(parts[2])>>
     ELSE IF Len(parts) = 2 THEN <<"FROM " \o Quoted(parts[1])>>
     ELSE <<>>

\* sqlParts with the FROM slot set when a table could be inferred
WithInferredFrom(sqlParts, cols) ==
  LET inferred == InferredFrom(cols[1])
  IN IF inferred = <<>> THEN sqlParts ELSE SetKey(sqlParts, "FROM", inferred[1])

\* A plausible slip: the whole dotted path quoted instead of its last part.
RECURSIVE QuotedFullPaths(_)
QuotedFullPaths(cols) ==
  IF cols = <<>> THEN <<>>
  ELSE <<Quoted(Head(cols))>> \o QuotedFullPaths(Tail(cols))

\* cols.map(c => { parts = c.split("."); return `"${parts[parts.length - 1]}"` })
RECURSIVE QuotedLastParts(_)
QuotedLastParts(cols) ==
  IF cols = <<>> THEN <<>>
  ELSE LET parts == Split(Head(cols), ".")
       IN <<Quoted(parts[Len(parts)])>> \o QuotedLastParts(Tail(cols))

\* cols.map(c => `"${c.split(".").pop() || c}"`)
RECURSIVE QuotedSegments(_)
QuotedSegments(cols) ==
  IF cols = <<>> THEN <<>>
  ELSE <<Quoted(LastSegment(Head(cols)))>> \o QuotedSegments(Tail(cols))

\* cols.map(o => `"${column}" ${o.direction}`)
RECURSIVE OrderParts(_)
OrderParts(cols) ==
  IF cols = <<>> THEN <<>>
  ELSE <<Quoted(LastSegment(Head(cols).column)) \o " " \o Head(cols).direction>>
         \o OrderParts(Tail(cols))

\* parts.length >= 2 ? parts[parts.length - 1] : table
TableName(table) ==
  LET parts == Split(table, ".")
  IN IF Len(parts) >= 2 THEN parts[Len(parts)] ELSE table

\* a non-empty array under the key
NonEmptyList(config, key) == key \in DOMAIN config /\ config[key] # <<>>

\* String(n) of a non-negative integer
RECURSIVE NumberToString(_)
NumberToString(n) ==
  IF n < 10 THEN CharAt("0123456789", n + 1)
  ELSE NumberToString(n \div 10) \o CharAt("0123456789", (n % 10) + 1)

AggregateKeywords == {"COUNT", "SUM", "AVG", "MIN", "MAX"}

\* A plausible slip: the schema's column count ignored, so that only an empty
\* or omitted selection gives SELECT *.
SelectsStarIgnoringSchema(config, all) ==
  ~NonEmptyList(config, "selectedColumns")

\* the condition under which case "SELECT" emits SELECT *
SelectsStar(config, all) ==
  \/ ~NonEmptyList(config, "selectedColumns")
  \/ (Len(all) > 0 /\ Len(config.selectedColumns) = Len(all))

\* one iteration of the loop over orderedNodes: the switch on the label
Emit(sqlParts, node, all) ==
  LET label == node.data.label
      config == node.data.config
  IN CASE label = "SELECT" ->
            IF SelectsStar(config, all)
            THEN LET star == SetKey(sqlParts, "SELECT", "SELECT *")
                 IN IF NonEmptyList(config, "selectedColumns")
                    THEN WithInferredFrom(star, config.selectedColumns)
                    ELSE star
            ELSE WithInferredFrom(
                   SetKey(sqlParts, "SELECT",
                          "SELECT " \o Join(QuotedLastParts(config.selectedColumns), ", ")),
                   config.selectedColumns)
       [] label = "DISTINCT" ->
            IF "SELECT" \in DOMAIN sqlParts
            THEN SetKey(sqlParts, "SELECT", ReplaceLeadingSelect(sqlParts.SELECT))
            ELSE sqlParts
       [] label = "FROM" ->
            IF "FROM" \notin DOMAIN sqlParts /\ Truthy(config, "selectedTable")
            THEN SetKey(sqlParts, "FROM",
                        "FROM " \o Quoted(TableName(config.selectedTable)))
            ELSE sqlParts
       [] label = "WHERE" ->
            IF NonEmptyList(config, "conditions")
                 /\ buildPredicateSQL(config.conditions) # ""
            THEN SetKey(sqlParts, "WHERE",
                        "WHERE " \o buildPredicateSQL(config.conditions))
            ELSE sqlParts
       [] label \in JoinKeywords ->
            IF Truthy(config, "joinTable")
            THEN LET joinClause ==
                       label \o " " \o Quoted(TableName(config.joinTable))
                         \o (IF Truthy(config, "onColumn")
                                  /\ Truthy(config, "onReferencedColumn")
                             THEN " ON " \o Quoted(LastSegment(config.onColumn))
                                    \o " = "
                                    \o Quoted(LastSegment(config.onReferencedColumn))
                             ELSE "")
                 IN SetKey(sqlParts, "JOIN",
                           IF "JOIN" \in DOMAIN sqlParts
                           THEN sqlParts.JOIN \o "\n  " \o joinClause
                           ELSE joinClause)
            ELSE sqlParts
       [] label = "GROUP BY" ->
            IF NonEmptyList(config, "groupColumns")
            THEN SetKey(sqlParts, "GROUP_BY",
                        "GROUP BY " \o Join(QuotedSegments(config.groupColumns), ", "))
            ELSE sqlParts
       [] label = "HAVING" ->
            IF NonEmptyList(config, "conditions")
                 /\ buildPredicateSQL(config.conditions) # ""
            THEN SetKey(sqlParts, "HAVING",
                        "HAVING " \o buildPredicateSQL(config.conditions))
            ELSE sqlParts
       [] label = "ORDER BY" ->
            IF NonEmptyList(config, "orderColumns")
            THEN SetKey(sqlParts, "ORDER_BY",
                        "ORDER BY " \o Join(OrderParts(config.orderColumns), ", "))
            ELSE sqlParts
       [] label = "LIMIT" ->
            IF "limitValue" \in DOMAIN config /\ config.limitValue # 0
            THEN SetKey(sqlParts, "LIMIT",
                        "LIMIT " \o NumberToString(config.limitValue))
            ELSE sqlParts
       [] label = "OFFSET" ->
            IF "offsetValue" \in DOMAIN config /\ config.offsetValue # 0
            THEN SetKey(sqlParts, "OFFSET",
                        "OFFSET " \o NumberToString(config.offsetValue))
            ELSE sqlParts
       [] label \in AggregateKeywords ->
            IF Truthy(config, "aggregateColumn") /\ "SELECT" \in DOMAIN sqlParts
            THEN LET aggFunc ==
                       label \o "(" \o Quoted(LastSegment(config.aggregateColumn))
                         \o ")"
                         \o (IF Truthy(config, "alias")
                             THEN " AS " \o config.alias ELSE "")
                 IN SetKey(sqlParts, "SELECT",
                           IF sqlParts.SELECT = "SELECT *"
                           THEN "SELECT " \o aggFunc
                           ELSE sqlParts.SELECT \o ", " \o aggFunc)
            ELSE sqlParts
       [] OTHER -> sqlParts

RECURSIVE EmitAll(_, _, _)
EmitAll(sqlParts, ordered, all) ==
  IF ordered = <<>> THEN sqlParts
  ELSE EmitAll(Emit(sqlParts, Head(ordered), all), Tail(ordered), all)

\* A plausible slip: WHERE assembled before JOIN.
SlotOrderWhereFirst ==
  << "SELECT", "FROM", "WHERE", "JOIN", "GROUP_BY", "HAVING", "ORDER_BY",
     "LIMIT", "OFFSET" >>

\* the slots of orderedParts, in assembly order
SlotOrder ==
  << "SELECT", "FROM", "JOIN", "WHERE", "GROUP_BY", "HAVING", "ORDER_BY",
     "LIMIT", "OFFSET" >>

\* [sqlParts.SELECT, ..., sqlParts.OFFSET].filter(Boolean)
RECURSIVE orderedParts(_, _)
orderedParts(sqlParts, slots) ==
  IF slots = <<>> THEN <<>>
  ELSE (IF Head(slots) \in DOMAIN sqlParts THEN <<sqlParts[Head(slots)]>> ELSE <<>>)
         \o orderedParts(sqlParts, Tail(slots))

\* sqlParts after the loop over the nodes reached from the SELECT node
sqlPartsOf(ns, es, schema) ==
  EmitAll(EmptyObj, orderedNodes(ns, es, FindSelect(ns)), allAvailableColumns(schema))

\* A plausible slip: the empty-graph early return dropped, so that an empty
\* node list falls through to the missing-SELECT sentinel.
generateSQLNoEarlyReturn(ns, es, schema) ==
  IF FindSelect(ns) = NullNode THEN NoSelectSentinel
  ELSE Join(orderedParts(sqlPartsOf(ns, es, schema), SlotOrder), "\n")

generateSQL(ns, es, schema) ==
  IF Len(ns) = 0 THEN ""
  ELSE IF FindSelect(ns) = NullNode THEN NoSelectSentinel
  ELSE Join(orderedParts(sqlPartsOf(ns, es, schema), SlotOrder), "\n")

NoCall == [fn |-> "none"]

Init ==
  /\ StoreInit
  /\ call = NoCall

Next ==
  \/ \E v \in Palette : addNode(Keyword(v)) /\ UNCHANGED <<call, connectionInfo, generatedSQL, loopVars>>
  \/ \E id \in 1..MaxNodes : removeNode(id) /\ UNCHANGED <<call, connectionInfo, generatedSQL, loopVars>>
  \/ \E i \in DOMAIN nodes : \E p \in Patches(nodes[i].data.label) :
       updateNodeData(nodes[i].id, p) /\ UNCHANGED <<call, connectionInfo, generatedSQL, loopVars>>
  \/ \E s \in 1..MaxNodes, t \in 1..MaxNodes :
       Len(edges) < MaxEdges /\ onConnect(s, t) /\ UNCHANGED <<call, connectionInfo, generatedSQL, loopVars>>
  \/ clearQueryError /\ UNCHANGED <<call, connectionInfo, generatedSQL, loopVars>>

\* The query store driven by the sidebar, the node components and the canvas.
Spec == Init /\ [][Next]_vars

(***************************************************************************)
(* allowedEdge applied to every ordered pair of registry keywords          *)
(***************************************************************************)
CheckEdge ==
  /\ call = NoCall
  /\ \E a \in Keywords, b \in Keywords :
       call' = [ fn     |-> "allowedEdge",
                 from   |-> RefOf(a),
                 to     |-> RefOf(b),
                 result |-> allowedEdge(RefOf(a), RefOf(b)) ]
  /\ UNCHANGED storeVars

SpecEdge == Init /\ [][CheckEdge]_vars

(***************************************************************************)
(* validateNode applied to nodes whose config schema has a field with a    *)
(* conditional-visibility rule.  No field of nodeConfigRegistry declares   *)
(* one, so the schemas are drawn from the FieldConfig type: a controlling  *)
(* field "mode", a field "x" shown conditionally on it, and a field "y".   *)
(***************************************************************************)
Conditionals ==
  { [field |-> "mode", value |-> e] : e \in {JsString("a"), JsNumber(1)} }
  \cup { [field |-> "mode", value |-> e, operator |-> op] :
           e \in {JsString("a"), JsNumber(1)},
           op \in {"equals", "notEquals", "includes", "notIncludes"} }

ModeValues ==
  { JsUndefined, JsString("a"), JsString("b"), JsNumber(1),
    JsArray(<<>>), JsArray(<<JsString("a")>>), JsArray(<<JsString("b"), JsNumber(1)>>) }

XValues ==
  { JsUndefined, JsNull, JsString(""), JsString("a b"), JsString("abcd"),
    JsNumber(0), JsNumber(5), JsArray(<<>>), JsArray(<<JsString("a")>>) }

ValidatorLists ==
  { <<>>,
    << [type |-> "required", message |-> "x is required"] >>,
    << [type |-> "required", message |-> "x is required"],
       [type |-> "min", value |-> 1, message |-> "x too small"] >>,
    << [type |-> "max", value |-> 3, message |-> "x too large"],
       [type |-> "min", value |-> 6, message |-> "x too small"] >>,
    << [type |-> "regex", value |-> "identifier", message |-> "x is no identifier"] >>,
    << [type |-> "custom", validate |-> "never", message |-> "x rejected"],
       [type |-> "custom", validate |-> "isPositive", message |-> "x not positive"] >> }

\* the config object holding the values that are not undefined
ConfigOf(mode, x) ==
  [k \in (IF mode = JsUndefined THEN {} ELSE {"mode"})
           \cup (IF x = JsUndefined THEN {} ELSE {"x"}) |->
     IF k = "mode" THEN mode ELSE x]

CheckValidate ==
  /\ call = NoCall
  /\ \E c \in Conditionals, vs \in ValidatorLists, mode \in ModeValues, x \in XValues :
       LET fields == << [key |-> "mode"],
                        [key |-> "x", validators |-> vs, conditional |-> c],
                        [key |-> "y", validators |->
                           << [type |-> "required", message |-> "y is required"] >>] >>
           config == ConfigOf(mode, x)
       IN call' = [ fn     |-> "validateNode",
                    fields |-> fields,
                    config |-> config,
                    result |-> ValidateFields(1, fields, config) ]
  /\ UNCHANGED storeVars

SpecValidate == Init /\ [][CheckValidate]_vars

(***************************************************************************)
(* buildPredicateSQL applied to small predicate trees                      *)
(***************************************************************************)
MaxItems == 2

Connectives == {"", "AND", "OR"}

\* a PredicateCondition; an empty logicalOp is the key left out
Condition(column, operator, value, logicalOp) ==
  IF logicalOp = ""
  THEN [column |-> column, operator |-> operator, value |-> value]
  ELSE [column |-> column, operator |-> operator, value |-> value,
        logicalOp |-> logicalOp]

\* a PredicateGroup; an empty parentLogicalOp is the key left out
Group(logicalOp, parentLogicalOp, conditions) ==
  IF parentLogicalOp = ""
  THEN [type |-> "group", logicalOp |-> logicalOp, conditions |-> conditions]
  ELSE [type |-> "group", logicalOp |-> logicalOp,
        parentLogicalOp |-> parentLogicalOp, conditions |-> conditions]

ConditionShapes ==
  << <<"a.age", ">", "18">>, <<"status", "=", "active">>,
     <<"a.age", "BETWEEN", "1,9">>, <<"a.id", "IN", "1, 2">>,
     <<"a.name", "LIKE", "x%">>, <<"a.age", "IS NULL", "">>,
     <<"", "=", "1">>, <<"a.age", "", "1">> >>

Conditions ==
  { Condition(ConditionShapes[i][1], ConditionShapes[i][2],
              ConditionShapes[i][3], lop) :
      i \in DOMAIN ConditionShapes, lop \in Connectives }

\* the nested sequences of the groups
NestedSequences ==
  << <<>>,
     <<Condition("", "=", "1", "")>>,
     <<Condition("a.status", "=", "active", "")>>,
     <<Condition("a.status", "=", "active", ""),
       Condition("a.verified", "=", "true", "OR")>>,
     <<Condition("a.x", "=", "1", ""),
       Group("AND", "OR", <<Condition("a.y", "<", "2", ""),
                            Condition("a.z", ">", "3", "AND")>>)>> >>

Groups ==
  { Group(lop, parent, NestedSequences[i]) :
      lop \in {"AND", "OR"}, parent \in Connectives, i \in DOMAIN NestedSequences }

\* the conditions of the WHERE node of the nested-conditions example
NestedExample ==
  << Condition("a.age", ">", "18", ""),
     Group("OR", "AND", <<Condition("a.status", "=", "active", ""),
                          Condition("a.verified", "=", "true", "OR")>>) >>

CompilePredicate ==
  /\ call = NoCall
  /\ \E n \in 0..MaxItems :
       \E conditions \in [1..n -> Conditions \cup Groups] :
         call' = [ fn         |-> "buildPredicateSQL",
                   conditions |-> conditions,
                   result     |-> buildPredicateSQL(conditions) ]
  /\ UNCHANGED storeVars

SpecPredicate == Init /\ [][CompilePredicate]_vars

(***************************************************************************)
(* generateSQL applied to small graphs and to a full pipeline              *)
(***************************************************************************)
MaxGenNodes == 3
MaxGenEdges == 2

CondC1 == Condition("c1", "=", "5", "")

\* label and config of the nodes the small graphs are built from
NodeTemplates ==
  << [label |-> "SELECT", config |-> [selectedColumns |-> <<"t.c1", "t.c2">>]],
     [label |-> "SELECT", config |-> [selectedColumns |-> <<>>]],
     [label |-> "SELECT", config |-> EmptyObj],
     [label |-> "SELECT", config |-> [selectedColumns |-> <<"public.t.c1">>]],
     [label |-> "FROM", config |-> [selectedTable |-> "t"]],
     [label |-> "WHERE", config |-> [conditions |-> <<CondC1>>]],
     [label |-> "INNER JOIN",
      config |-> [joinTable |-> "public.a", onColumn |-> "t.id",
                  onReferencedColumn |-> "a.tid"]],
     [label |-> "LIMIT", config |-> [limitValue |-> 10]] >>

\* a node as addNode creates it, with the config its component has written
GenNode(id, template) ==
  WithConfig(NewNode(id, Keyword(template.label)), template.config)

\* schema: null, no table, t(c1, c2), u(x)
Schemas ==
  << NoSchema,
     [tables |-> <<>>],
     [tables |-> << [schema |-> "public", name |-> "t",
                     columns |-> << [name |-> "c1"], [name |-> "c2"] >>] >>],
     [tables |-> << [schema |-> "public", name |-> "u",
                     columns |-> << [name |-> "x"] >>] >>] >>

\* the connections onConnect accepts between the nodes
EdgePairs(ns) ==
  { [source |-> ns[p[1]].id, target |-> ns[p[2]].id] :
      p \in { q \in (DOMAIN ns) \X (DOMAIN ns) :
                ConnectionAllowed(ns[q[1]], ns[q[2]]) } }

\* edge lists without duplicates (addEdge keeps them so)
EdgeLists(ns) ==
  { es \in UNION { [1..k -> EdgePairs(ns)] : k \in 0..MaxGenEdges } :
      \A i, j \in DOMAIN es : i # j => es[i] # es[j] }

CompileGraph ==
  /\ call = NoCall
  /\ \E n \in 0..MaxGenNodes :
       \E pick \in [1..n -> DOMAIN NodeTemplates] :
         LET ns == [i \in 1..n |-> GenNode(i, NodeTemplates[pick[i]])]
         IN \E es \in EdgeLists(ns) :
              \E s \in DOMAIN Schemas :
                call' = [ fn     |-> "generateSQL",
                          nodes  |-> ns,
                          edges  |-> es,
                          schema |-> Schemas[s],
                          result |-> generateSQL(ns, es, Schemas[s]) ]
  /\ UNCHANGED storeVars

\* a query with every clause the sidebar offers
PipelineTemplates ==
  << [label |-> "SELECT", config |-> [selectedColumns |-> <<"t.c1", "t.c2">>]],
     [label |-> "FROM", config |-> [selectedTable |-> "public.t"]],
     [label |-> "INNER JOIN",
      config |-> [joinTable |-> "public.a", onColumn |-> "t.id",
                  onReferencedColumn |-> "a.tid"]],
     [label |-> "LEFT JOIN", config |-> [joinTable |-> "b"]],
     [label |-> "WHERE", config |-> [conditions |-> <<CondC1>>]],
     [label |-> "GROUP BY", config |-> [groupColumns |-> <<"t.c1">>]],
     [label |-> "HAVING",
      config |-> [conditions |-> <<Condition("t.c2", ">", "1", "")>>]],
     [label |-> "ORDER BY",
      config |-> [orderColumns |-> << [column |-> "t.c1", direction |-> "DESC"] >>]],
     [label |-> "LIMIT", config |-> [limitValue |-> 10]] >>

PipelineNodes ==
  [i \in DOMAIN PipelineTemplates |-> GenNode(i, PipelineTemplates[i])]

Reverse(s) == [i \in DOMAIN s |-> s[Len(s) + 1 - i]]

Rotate(s, r) == SubSeq(s, r + 1, Len(s)) \o SubSeq(s, 1, r)

\* SELECT -> FROM -> ... -> LIMIT, SELECT -> every other node, and
\* SELECT -> FROM -> every other node
Chain == [i \in 1..(Len(PipelineNodes) - 1) |-> [source |-> i, target |-> i + 1]]

Star == [i \in 1..(Len(PipelineNodes) - 1) |-> [source |-> 1, target |-> i + 1]]

Fan ==
  [i \in 1..(Len(PipelineNodes) - 1) |->
     IF i = 1 THEN [source |-> 1, target |-> 2] ELSE [source |-> 2, target |-> i + 1]]

Shapes == <<Chain, Star, Fan>>

CompilePipeline ==
  /\ call = NoCall
  /\ \E shape \in DOMAIN Shapes, r \in 0..(Len(Chain) - 1),
        backwards \in BOOLEAN, nodesBackwards \in BOOLEAN, s \in DOMAIN Schemas :
       LET rotated == Rotate(Shapes[shape], r)
           es == IF backwards THEN Reverse(rotated) ELSE rotated
           ns == IF nodesBackwards THEN Reverse(PipelineNodes) ELSE PipelineNodes
       IN call' = [ fn     |-> "generateSQL",
                    nodes  |-> ns,
                    edges  |-> es,
                    schema |-> Schemas[s],
                    result |-> generateSQL(ns, es, Schemas[s]) ]
  /\ UNCHANGED storeVars

GenNext == CompileGraph \/ CompilePipeline

SpecGen == Init /\ [][GenNext]_vars

(***************************************************************************)
(* Properties                                                              *)
(***************************************************************************)
\* C1: for every ordered pair (a, b) of registry keywords that both carry a
\* numeric stage, if stage(b) < stage(a) and b's kind is not 'modifier', then
\* allowedEdge(a, b) is false.
C1_BackwardStageRejected ==
  ( /\ call.fn = "allowedEdge"
    /\ HasStage(call.from) /\ HasStage(call.to)
    /\ call.to.stage < call.from.stage
    /\ call.to.kind # "modifier" )
  => call.result = FALSE

\* C1 witness: a backward pair whose kinds are adjacent in KIND_GRAPH and whose
\* source is a join, so that only the stage rule rejects it (LEFT JOIN -> FROM).
C1_Witness ==
  /\ call.fn = "allowedEdge"
  /\ HasStage(call.from) /\ HasStage(call.to)
  /\ call.to.stage < call.from.stage
  /\ call.to.kind # "modifier"
  /\ call.from.kind = "join"
  /\ call.to.kind \in KindsAfter(call.from.kind)
  /\ call.result = FALSE

EdgeAllowedBetween(ns, s, t) ==
  allowedEdge(RefOf(FindNode(ns, s).data.meta), RefOf(FindNode(ns, t).data.meta))

\* C2: an onConnect whose source and target nodes fail allowedEdge leaves the
\* edge list unchanged and sets queryError to the message naming both endpoint
\* keywords; and whenever onConnect changes the edge list, it appended exactly
\* the connection's edge and that pair satisfies allowedEdge.
C2_RejectedConnectAddsNoEdge ==
  [][ \A s \in 1..MaxNodes, t \in 1..MaxNodes :
        ( /\ onConnect(s, t)
          /\ FindNode(nodes, s) # NullNode
          /\ FindNode(nodes, t) # NullNode )
        => /\ ~EdgeAllowedBetween(nodes, s, t)
                => /\ edges' = edges
                   /\ queryError' =
                        "Cannot connect " \o FindNode(nodes, s).data.label
                          \o " to " \o FindNode(nodes, t).data.label
                          \o ". Invalid edge based on SQL semantics."
           /\ edges' # edges
                => /\ EdgeAllowedBetween(nodes, s, t)
                   /\ edges' = Append(edges, [source |-> s, target |-> t]) ]_vars

\* C2 witness: a rejected connection has just set the error message while an
\* edge accepted earlier is still the only edge.
C2_Witness ==
  /\ lastOp.op = "onConnect"
  /\ queryError # Null
  /\ Len(edges) = 1
  /\ \E s \in NodeIds(nodes), t \in NodeIds(nodes) :
       /\ ~EdgeAllowedBetween(nodes, s, t)
       /\ queryError = ConnectError(FindNode(nodes, s), FindNode(nodes, t))

NoDanglingEdges(ns, es) ==
  \A i \in DOMAIN es : es[i].source \in NodeIds(ns) /\ es[i].target \in NodeIds(ns)

\* C3: after removeNode(id) the node is absent, no edge has id as source or
\* target, every other node and every edge not touching id is kept as it was,
\* in order; and every step of the store keeps every edge's endpoints among the
\* nodes.
C3_RemoveNodeLeavesNoDanglingEdge ==
  [][ /\ NoDanglingEdges(nodes, edges) => NoDanglingEdges(nodes', edges')
      /\ \A id \in 1..MaxNodes :
           removeNode(id) =>
             /\ id \notin NodeIds(nodes')
             /\ \A i \in DOMAIN edges' :
                  edges'[i].source # id /\ edges'[i].target # id
             /\ nodes' = SelectSeq(nodes, LAMBDA n : n.id # id)
             /\ edges' = SelectSeq(edges, LAMBDA e : e.source # id /\ e.target # id)
    ]_vars

\* C3 witness: a removeNode has just dropped an edge of the removed node while
\* another edge, between surviving nodes, is still there.
C3_Witness ==
  /\ lastOp.op = "removeNode"
  /\ lastOp.dropped > 0
  /\ edges # <<>>
  /\ NoDanglingEdges(nodes, edges)

\* C5: applying the same config change to the same node twice in succession
\* gives the node list that applying it once gives (updateNodeData with its
\* cascading effects is idempotent).
C5_EffectsIdempotent ==
  \A i \in DOMAIN nodes : \A p \in Patches(nodes[i].data.label) :
    LET once == UpdatedNodes(nodes, nodes[i].id, p)
    IN UpdatedNodes(once, nodes[i].id, p) = once

\* C5 witness: an updateNodeData has just cascaded (a FROM table change reset a
\* SELECT's non-empty column list), and the same change applied again changes
\* nothing.
C5_Witness ==
  /\ lastOp.op = "updateNodeData"
  /\ lastOp.cascaded
  /\ \E i \in DOMAIN nodes :
       /\ nodes[i].data.label = "FROM"
       /\ "selectedTable" \in DOMAIN nodes[i].data.config
       /\ UpdatedNodes(nodes, nodes[i].id,
            << <<"selectedTable", nodes[i].data.config.selectedTable>> >>) = nodes

\* the conditional-visibility rule of a field, read off the config: does it
\* hold?
RuleHolds(c, config) ==
  LET actual == IF c.field \in DOMAIN config THEN config[c.field] ELSE JsUndefined
      same == actual.t # "array" /\ actual = c.value
      among == actual.t = "array" /\ c.value \in Range(actual.a)
      op == IF "operator" \in DOMAIN c THEN c.operator ELSE "equals"
  IN CASE op = "equals"      -> same
       [] op = "notEquals"   -> ~same
       [] op = "includes"    -> among
       [] op = "notIncludes" -> ~among

\* C4: a field whose conditional-visibility rule evaluates to false contributes
\* no error with its key to validateNode's result, whatever its validators and
\* its value.
C4_HiddenFieldNeverFails ==
  call.fn = "validateNode" =>
    \A i \in DOMAIN call.fields :
      LET f == call.fields[i]
      IN ("conditional" \in DOMAIN f /\ ~RuleHolds(f.conditional, call.config))
           => \A j \in DOMAIN call.result : call.result[j].fieldKey # f.key

\* C4 witness: a hidden field whose value fails its own validators (validated
\* on its own it yields errors), next to a visible field that does report.
C4_Witness ==
  /\ call.fn = "validateNode"
  /\ \E i \in DOMAIN call.fields :
       LET f == call.fields[i]
       IN /\ "conditional" \in DOMAIN f
          /\ ~RuleHolds(f.conditional, call.config)
          /\ validateField(JsGet(call.config, f.key), f.validators) # <<>>
  /\ call.result # <<>>
  /\ \A j \in DOMAIN call.result : call.result[j].fieldKey = "y"


(***************************************************************************)
(* Claims about the graph-to-SQL compiler                                  *)
(***************************************************************************)
IsCompile == call.fn = "generateSQL"

\* the total number of columns of the schema (0 for null)
ColumnCount(schema) ==
  IF "tables" \in DOMAIN schema
  THEN LET RECURSIVE Sum(_)
           Sum(tables) == IF tables = <<>> THEN 0
                          ELSE Len(Head(tables).columns) + Sum(Tail(tables))
       IN Sum(schema.tables)
  ELSE 0

\* the graph SELECT(t.c1, t.c2) -> FROM(t) -> WHERE(c1 = 5)
ThreeClauseNodes ==
  << GenNode(1, NodeTemplates[1]), GenNode(2, NodeTemplates[5]),
     GenNode(3, NodeTemplates[6]) >>

ThreeClauseEdges == { [source |-> 1, target |-> 2], [source |-> 2, target |-> 3] }

IsThreeClauseCall ==
  /\ IsCompile
  /\ call.nodes = ThreeClauseNodes
  /\ Range(call.edges) = ThreeClauseEdges

ThreeLines == "SELECT \"c1\", \"c2\"\nFROM \"t\"\nWHERE \"c1\" = '5'"

\* C6 (as stated): the graph SELECT(t.c1, t.c2) -> FROM(t) -> WHERE(c1 = 5)
\* compiles to exactly the three lines SELECT "c1", "c2" / FROM "t" /
\* WHERE "c1" = '5', whatever schema is passed.
C6_ThreeLinesForEverySchema ==
  IsThreeClauseCall => call.result = ThreeLines

\* C6 (amended): the graph SELECT(t.c1, t.c2) -> FROM(t) -> WHERE(c1 = 5)
\* compiles to exactly the three lines SELECT "c1", "c2" / FROM "t" /
\* WHERE "c1" = '5' when the schema is null or its total number of columns is
\* not 2; when the schema has 2 columns in total the first line is SELECT *.
C6_ThreeLinesUnlessSchemaHasTwoColumns ==
  IsThreeClauseCall =>
    IF ColumnCount(call.schema) # 2
    THEN call.result = ThreeLines
    ELSE call.result = "SELECT *\nFROM \"t\"\nWHERE \"c1\" = '5'"

C6_Witness ==
  /\ IsThreeClauseCall
  /\ call.schema = NoSchema
  /\ call.result = ThreeLines

\* the rendering of a condition with a default comparison operator: the
\* stored connective, the quoted column name, the operator, the quoted value
PlainCondition(c) ==
  (IF "logicalOp" \in DOMAIN c THEN c.logicalOp \o " " ELSE "")
    \o "\"" \o LastSegment(c.column) \o "\" " \o c.operator
    \o " '" \o c.value \o "'"

IsPlain(item) ==
  /\ ~IsGroup(item)
  /\ item.column # ""
  /\ item.operator \in {"=", ">", "<"}

\* the rendering of a group whose nested sequence renders as `inner`
GroupFragment(g, inner) ==
  (IF "parentLogicalOp" \in DOMAIN g THEN g.parentLogicalOp \o " " ELSE "")
    \o "(" \o inner \o ")"

\* C7: buildPredicateSQL renders a group as its parentLogicalOp followed by
\* its parenthesised nested rendering, a condition as its connective followed
\* by "<column>" <operator> '<value>', and joins the fragments with single
\* spaces; [age > 18, group(AND; status = active, OR verified = true)] renders
\* as "age" > '18' AND ("status" = 'active' OR "verified" = 'true').
C7_PredicateRendering ==
  call.fn = "buildPredicateSQL" =>
    LET items == call.conditions
        Rendered(item) ==
          IF IsGroup(item)
          THEN GroupFragment(item, buildPredicateSQL(item.conditions))
          ELSE PlainCondition(item)
        Regular(item) ==
          IF IsGroup(item)
          THEN buildPredicateSQL(item.conditions) # ""
          ELSE IsPlain(item)
    IN /\ (items = NestedExample =>
             call.result =
               "\"age\" > '18' AND (\"status\" = 'active' OR \"verified\" = 'true')")
       /\ (Len(items) = 1 /\ Regular(items[1]) =>
             call.result = Rendered(items[1]))
       /\ (Len(items) = 2 /\ Regular(items[1]) /\ Regular(items[2]) =>
             call.result = Rendered(items[1]) \o " " \o Rendered(items[2]))
       /\ ( /\ Len(items) = 1
             /\ IsGroup(items[1])
             /\ Len(items[1].conditions) = 2
             /\ IsPlain(items[1].conditions[1])
             /\ IsPlain(items[1].conditions[2])
           => call.result =
                GroupFragment(items[1],
                  PlainCondition(items[1].conditions[1]) \o " "
                    \o PlainCondition(items[1].conditions[2])) )

C7_Witness ==
  /\ call.fn = "buildPredicateSQL"
  /\ call.conditions = NestedExample
  /\ call.result =
       "\"age\" > '18' AND (\"status\" = 'active' OR \"verified\" = 'true')"

\* what generateSQL returns for a graph without a SELECT node
OutputWithoutSelect ==
  generateSQL(<<GenNode(1, NodeTemplates[5])>>, <<>>, NoSchema)

HasSelect(ns) ==
  \E i \in DOMAIN ns : ns[i].data.label = "SELECT" /\ ns[i].data.kind = "clause"

\* C8 (as stated): generateSQL of an empty node list and an empty edge list
\* returns the output it returns whenever no SELECT node is present.
C8_EmptyGraphGivesNoSelectOutput ==
  IsCompile /\ call.nodes = <<>> /\ call.edges = <<>> =>
    call.result = OutputWithoutSelect

\* C8 (amended): generateSQL of an empty node list returns the empty string;
\* for a non-empty node list without a SELECT clause node it returns the
\* comment line "-- Add a SELECT node to start building your query".
C8_EmptyGraphGivesEmptyString ==
  IsCompile =>
    /\ call.nodes = <<>> => call.result = ""
    /\ call.nodes # <<>> /\ ~HasSelect(call.nodes) =>
         /\ call.result = "-- Add a SELECT node to start building your query"
         /\ call.result = OutputWithoutSelect

C8_Witness ==
  /\ IsCompile
  /\ call.nodes = <<>>
  /\ call.edges = <<>>
  /\ call.result = ""
  /\ OutputWithoutSelect # ""

\* the first element of output.split("\n")
FirstLine(output) == Split(output, "\n")[1]

SelectNodes(ns) == SelectSeq(ns, LAMBDA n : n.data.label = "SELECT")

Selection(node) ==
  IF "selectedColumns" \in DOMAIN node.data.config
  THEN node.data.config.selectedColumns ELSE <<>>

\* C9: for every schema (null and empty included) and every SELECT node, the
\* projection is SELECT * if the number of selected columns equals the total
\* number of schema columns or the selection is empty or omitted, and the
\* quoted column list otherwise.
C9_StarIffEmptyOrCountEqualsTotal ==
  IsCompile /\ Len(SelectNodes(call.nodes)) = 1 =>
    LET selection == Selection(SelectNodes(call.nodes)[1])
        names == [i \in DOMAIN selection |->
                    "\"" \o LastSegment(selection[i]) \o "\""]
    IN IF Len(selection) = 0 \/ Len(selection) = ColumnCount(call.schema)
       THEN FirstLine(call.result) = "SELECT *"
       ELSE FirstLine(call.result) = "SELECT " \o Join(names, ", ")

C9_Witness ==
  /\ IsCompile
  /\ Len(SelectNodes(call.nodes)) = 1
  /\ Len(Selection(SelectNodes(call.nodes)[1])) = 2
  /\ ColumnCount(call.schema) = 2
  /\ FirstLine(call.result) = "SELECT *"

StartsWith(s, prefix) ==
  Len(s) >= Len(prefix) /\ SubSeq(s, 1, Len(prefix)) = prefix

RECURSIVE TrimLeft(_)
TrimLeft(s) == IF StartsWith(s, " ") THEN TrimLeft(SubSeq(s, 2, Len(s))) ELSE s

\* the position of a line's clause in SELECT, FROM, JOIN, WHERE, GROUP BY,
\* HAVING, ORDER BY, LIMIT, OFFSET; 0 for a line that opens no clause
ClauseRank(line) ==
  LET l == TrimLeft(line)
  IN CASE StartsWith(l, "SELECT")   -> 1
       [] StartsWith(l, "FROM")     -> 2
       [] \E j \in JoinKeywords : StartsWith(l, j) -> 3
       [] StartsWith(l, "WHERE")    -> 4
       [] StartsWith(l, "GROUP BY") -> 5
       [] StartsWith(l, "HAVING")   -> 6
       [] StartsWith(l, "ORDER BY") -> 7
       [] StartsWith(l, "LIMIT")    -> 8
       [] StartsWith(l, "OFFSET")   -> 9
       [] OTHER                     -> 0

IsQuery == IsCompile /\ HasSelect(call.nodes)

\* C10 (as stated): for every graph with a SELECT node the newline-separated
\* segments of the output are the non-empty slots, one slot per segment, in
\* the order SELECT, FROM, JOIN, WHERE, GROUP BY, HAVING, ORDER BY, LIMIT,
\* OFFSET, whatever the insertion order and the shape of the edges.
C10_OneSlotPerSegmentInOrder ==
  IsQuery =>
    LET lines == Split(call.result, "\n")
    IN /\ \A i \in DOMAIN lines : ClauseRank(lines[i]) > 0
       /\ \A i, j \in DOMAIN lines :
            i < j => ClauseRank(lines[i]) < ClauseRank(lines[j])

\* C10 (amended): for every graph with a SELECT node the newline-separated
\* segments of the output follow the order SELECT, FROM, JOIN, WHERE,
\* GROUP BY, HAVING, ORDER BY, LIMIT, OFFSET, whatever the insertion order and
\* the shape of the edges; every slot is one segment except JOIN, which has
\* one segment for each configured join node, the later ones indented.
C10_SegmentsInClauseOrder ==
  IsQuery =>
    LET lines == Split(call.result, "\n")
    IN /\ \A i \in DOMAIN lines : ClauseRank(lines[i]) > 0
       /\ \A i, j \in DOMAIN lines :
            i < j =>
              \/ ClauseRank(lines[i]) < ClauseRank(lines[j])
              \/ /\ ClauseRank(lines[i]) = 3
                 /\ ClauseRank(lines[j]) = 3
                 /\ StartsWith(lines[j], "  ")

C10_Witness ==
  /\ IsQuery
  /\ call.edges # <<>>
  /\ call.edges[1].target = Len(call.nodes)
  /\ Len(Split(call.result, "\n")) = 9
  /\ ClauseRank(Split(call.result, "\n")[9]) = 8

(***************************************************************************)
(* generateSQL applied to graphs with unconfigured nodes                   *)
(***************************************************************************)
MaxPartNodes == 2

\* an unconfigured or half-configured node: label and config.  Every key of
\* SqlNodeData.config is optional; the rows the list fields add start with an
\* empty column (order-by-node handleAddColumn, handleAddCondition).
PartTemplates ==
  << [label |-> "SELECT", config |-> EmptyObj],
     [label |-> "SELECT", config |-> [selectedColumns |-> <<>>]],
     [label |-> "SELECT", config |-> [selectedColumns |-> <<"c1">>]],
     [label |-> "FROM", config |-> EmptyObj],
     [label |-> "FROM", config |-> [selectedTable |-> ""]],
     [label |-> "FROM", config |-> [selectedTable |-> "public.t"]],
     [label |-> "INNER JOIN", config |-> EmptyObj],
     [label |-> "LEFT JOIN", config |-> [joinTable |-> "", onColumn |-> "t.id"]],
     [label |-> "JOIN", config |-> [joinTable |-> "public.a", onColumn |-> "t.id"]],
     [label |-> "WHERE", config |-> EmptyObj],
     [label |-> "WHERE", config |-> [conditions |-> <<>>]],
     [label |-> "WHERE", config |-> [conditions |-> <<Condition("", "=", "", "")>>]],
     [label |-> "WHERE",
      config |-> [conditions |->
                    << Condition("t.c1", "", "5", ""),
                       Group("AND", "AND", <<>>),
                       Group("AND", "OR", <<Condition("", "=", "", "")>>) >>]],
     [label |-> "HAVING", config |-> [conditions |-> <<Condition("", "=", "", "")>>]],
     [label |-> "GROUP BY", config |-> EmptyObj],
     [label |-> "GROUP BY", config |-> [groupColumns |-> <<>>]],
     [label |-> "ORDER BY", config |-> EmptyObj],
     [label |-> "ORDER BY", config |-> [orderColumns |-> <<>>]],
     [label |-> "ORDER BY",
      config |-> [orderColumns |-> << [column |-> "", direction |-> "ASC"] >>]],
     [label |-> "LIMIT", config |-> EmptyObj],
     [label |-> "LIMIT", config |-> [limitValue |-> 0]],
     [label |-> "COUNT", config |-> EmptyObj],
     [label |-> "SUM", config |-> [aggregateColumn |-> "", alias |-> "total"]] >>

\* a TypeError inside buildPredicateSQL: `conditions.length` of a group that
\* has no conditions array
RECURSIVE PredicateThrows(_)
PredicateThrows(conditions) ==
  \E i \in DOMAIN conditions :
    /\ IsGroup(conditions[i])
    /\ \/ "conditions" \notin DOMAIN conditions[i]
       \/ PredicateThrows(conditions[i].conditions)

\* a TypeError inside the switch for this node: `o.column.split` of an order
\* row without column, or one inside buildPredicateSQL
EmitThrows(node) ==
  LET label == node.data.label
      config == node.data.config
  IN \/ /\ label = "ORDER BY"
        /\ NonEmptyList(config, "orderColumns")
        /\ \E i \in DOMAIN config.orderColumns :
             "column" \notin DOMAIN config.orderColumns[i]
     \/ /\ label \in {"WHERE", "HAVING"}
        /\ NonEmptyList(config, "conditions")
        /\ PredicateThrows(config.conditions)

\* does generateSQL(nodes, edges, schema) throw?
generateSQLThrows(ns, es, schema) ==
  /\ Len(ns) # 0
  /\ FindSelect(ns) # NullNode
  /\ \E i \in DOMAIN orderedNodes(ns, es, FindSelect(ns)) :
       EmitThrows(orderedNodes(ns, es, FindSelect(ns))[i])

\* the ids the edges may name: the nodes' and one of no node
PartEdgePairs(ns) ==
  { [source |-> p[1], target |-> p[2]] :
      p \in (1..Len(ns)) \X (1..(Len(ns) + 1)) }

PartEdgeLists(ns) ==
  { es \in UNION { [1..k -> PartEdgePairs(ns)] : k \in 0..MaxGenEdges } :
      \A i, j \in DOMAIN es : i # j => es[i] # es[j] }

CompilePartial ==
  /\ call = NoCall
  /\ \E n \in 0..MaxPartNodes :
       \E pick \in [1..n -> DOMAIN PartTemplates] :
         LET ns == [i \in 1..n |-> GenNode(i, PartTemplates[pick[i]])]
         IN \E es \in PartEdgeLists(ns) :
              call' = [ fn     |-> "generateSQL",
                        nodes  |-> ns,
                        edges  |-> es,
                        schema |-> NoSchema,
                        threw  |-> generateSQLThrows(ns, es, NoSchema),
                        result |-> IF generateSQLThrows(ns, es, NoSchema)
                                   THEN "<TypeError>"
                                   ELSE generateSQL(ns, es, NoSchema) ]
  /\ UNCHANGED storeVars

SpecPartial == Init /\ [][CompilePartial]_vars

\* the newline-separated segments of the output that open the clause of the
\* given rank
LinesOfRank(output, rank) ==
  { i \in DOMAIN Split(output, "\n") : ClauseRank(Split(output, "\n")[i]) = rank }

NodesLabelled(ns, labels) ==
  { i \in DOMAIN ns : ns[i].data.label \in labels }

ListOf(config, key) == IF key \in DOMAIN config THEN config[key] ELSE <<>>

TextOf(config, key) == IF key \in DOMAIN config THEN config[key] ELSE ""

\* no condition of the list, at any depth, has both a column and an operator
RECURSIVE NothingToRender(_)
NothingToRender(conditions) ==
  \A i \in DOMAIN conditions :
    IF "type" \in DOMAIN conditions[i]
    THEN NothingToRender(conditions[i].conditions)
    ELSE conditions[i].column = "" \/ conditions[i].operator = ""

\* the clause slots with the labels that write them and, for each, when a
\* node of that label has nothing configured to render
Unconfigured(node) ==
  LET label == node.data.label
      config == node.data.config
  IN CASE label = "FROM" -> TextOf(config, "selectedTable") = ""
       [] label \in JoinKeywords -> TextOf(config, "joinTable") = ""
       [] label \in {"WHERE", "HAVING"} -> NothingToRender(ListOf(config, "conditions"))
       [] label = "GROUP BY" -> ListOf(config, "groupColumns") = <<>>
       [] label = "ORDER BY" -> ListOf(config, "orderColumns") = <<>>
       [] label = "LIMIT" -> "limitValue" \notin DOMAIN config \/ config.limitValue = 0
       [] OTHER -> FALSE

\* an ORDER BY node all of whose rows have an empty column
OrderRowsEmpty(node) ==
  /\ node.data.label = "ORDER BY"
  /\ \A i \in DOMAIN ListOf(node.data.config, "orderColumns") :
       node.data.config.orderColumns[i].column = ""

SlotLabels ==
  << {"SELECT"}, {"FROM"}, JoinKeywords, {"WHERE"}, {"GROUP BY"}, {"HAVING"},
     {"ORDER BY"}, {"LIMIT"} >>

\* no SELECT node from whose first column a FROM clause is inferred
NoInference(ns) ==
  \A i \in NodesLabelled(ns, {"SELECT"}) :
    ListOf(ns[i].data.config, "selectedColumns") = <<>>
      \/ Len(Split(ns[i].data.config.selectedColumns[1], ".")) = 1

RegistryFields(label) ==
  CASE label = "SELECT" -> << [key |-> "selectedColumns"] >>
    [] label = "FROM" ->
         << [key |-> "selectedTable",
             validators |-> << [type |-> "required", message |-> "Table is required"] >>] >>
    [] label \in {"WHERE", "HAVING"} -> << [key |-> "conditions"] >>
    [] label = "LIMIT" ->
         << [key |-> "limitValue",
             validators |->
               << [type |-> "required", message |-> "Limit value required"],
                  [type |-> "min", value |-> 1, message |-> "Must be at least 1"] >>] >>
    [] OTHER -> <<>>

\* the config of a node with every value carrying its JavaScript type
TypedConfig(config) ==
  [k \in DOMAIN config |->
     CASE k \in {"selectedColumns", "conditions", "orderColumns", "groupColumns"} ->
            JsArray(config[k])
       [] k \in {"limitValue", "offsetValue"} -> JsNumber(config[k])
       [] OTHER -> JsString(config[k])]

\* validateNode(node, context)
validateNode(node) ==
  ValidateFields(node.id, RegistryFields(node.data.label),
                 TypedConfig(node.data.config))

\* validateAllNodes(nodes, edges, schema).errors
RECURSIVE validateAllNodes(_)
validateAllNodes(ns) ==
  IF ns = <<>> THEN <<>>
  ELSE validateNode(Head(ns)) \o validateAllNodes(Tail(ns))

\* setConnection(info, schema), after connectToDatabase has answered
setConnection ==
  /\ connectionInfo = NoConnection
  /\ connectionInfo' = [sessionId |-> "session-1", schema |-> Schemas[3]]
  /\ lastOp' = [op |-> "setConnection"]
  /\ UNCHANGED <<nodes, edges, queryError, nodeIdCounter, generatedSQL, call>>

\* the schema the canvas passes to generateSQL
StoreSchema == IF connectionInfo = NoConnection THEN NoSchema ELSE connectionInfo.schema

\* sql && connectionInfo?.sessionId
ShouldExecute(sql) == sql # "" /\ connectionInfo.sessionId # Null

\* the timer of the canvas's useEffect firing: generate, and execute when
\* there is SQL and a session.  executeQuery either answers or rejects.
generateAndExecute ==
  /\ UNCHANGED <<nodes, edges, nodeIdCounter, connectionInfo, call>>
  /\ IF Len(nodes) = 0
     THEN /\ generatedSQL' = ""
          /\ queryError' = Null
          /\ lastOp' = [op |-> "generateAndExecute", executed |-> FALSE]
     ELSE LET sql == generateSQL(nodes, edges, StoreSchema)
          IN /\ generatedSQL' = sql
             /\ lastOp' = [op |-> "generateAndExecute",
                           executed |-> ShouldExecute(sql)]
             /\ IF ShouldExecute(sql)
                THEN queryError' \in {Null, "Failed to execute query"}
                ELSE UNCHANGED queryError

\* The keywords dragged onto the canvas in this model.
CanvasPalette == {"SELECT", "FROM"}

MaxCanvasNodes == 2

CanvasNext ==
  \/ \E v \in CanvasPalette :
       nodeIdCounter < MaxCanvasNodes /\ addNode(Keyword(v)) /\ UNCHANGED <<call, connectionInfo, generatedSQL, loopVars>>
  \/ \E i \in DOMAIN nodes : \E p \in Patches(nodes[i].data.label) :
       updateNodeData(nodes[i].id, p)
         /\ UNCHANGED <<call, connectionInfo, generatedSQL, loopVars>>
  \/ \E s \in 1..MaxNodes, t \in 1..MaxNodes :
       Len(edges) < MaxEdges /\ onConnect(s, t)
         /\ UNCHANGED <<call, connectionInfo, generatedSQL, loopVars>>
  \/ setConnection /\ UNCHANGED loopVars
  \/ generateAndExecute /\ UNCHANGED loopVars

\* The canvas: editing, connecting to a database and the debounced effect.
SpecCanvas == Init /\ [][CanvasNext]_vars

\* C12: in the generate-and-execute cycle executeQuery is never invoked
\* while some node has a validateNode error (validateAllNodes is not valid);
\* editing stays possible in that state.
C12_NoExecutionWhileInvalid ==
  lastOp.op = "generateAndExecute" /\ lastOp.executed =>
    validateAllNodes(nodes) = <<>>

\* an execution with an invalid node on the canvas
C12_ExecutedWhileInvalid ==
  /\ lastOp.op = "generateAndExecute"
  /\ lastOp.executed
  /\ validateAllNodes(nodes) # <<>>
  /\ generatedSQL = "SELECT *"

(***************************************************************************)
(* checkRequires applied to keyword descriptors                            *)
(***************************************************************************)
MaxRules == 2

\* v === "AggregatePresent" ? context.aggregatePresent : upstreamValues.has(v)
ItemPresent(v, upstreamValues, context) ==
  IF v = "AggregatePresent" THEN context.aggregatePresent ELSE v \in upstreamValues

\* A plausible slip: an allOf rule tested with some() like an anyOf rule.
RulePassesSomeForAll(rule, upstreamValues, context) ==
  IF "anyOf" \in DOMAIN rule
  THEN \E i \in DOMAIN rule.anyOf : ItemPresent(rule.anyOf[i], upstreamValues, context)
  ELSE IF "allOf" \in DOMAIN rule
       THEN \E i \in DOMAIN rule.allOf :
              ItemPresent(rule.allOf[i], upstreamValues, context)
       ELSE TRUE

\* the callback of node.requires.every
RulePasses(rule, upstreamValues, context) ==
  IF "anyOf" \in DOMAIN rule
  THEN \E i \in DOMAIN rule.anyOf : ItemPresent(rule.anyOf[i], upstreamValues, context)
  ELSE IF "allOf" \in DOMAIN rule
       THEN \A i \in DOMAIN rule.allOf :
              ItemPresent(rule.allOf[i], upstreamValues, context)
       ELSE TRUE

checkRequires(node, upstreamValues, context) ==
  IF "requires" \notin DOMAIN node THEN TRUE
  ELSE \A i \in DOMAIN node.requires :
         RulePasses(node.requires[i], upstreamValues, context)

\* requirement rules: those of the registry and allOf rules of the
\* SqlKeywordMeta type (the registry declares only anyOf rules)
RuleChoices ==
  << [anyOf |-> <<"SELECT">>],
     [anyOf |-> <<"FROM", "JOIN">>],
     [anyOf |-> <<"GROUP BY", "AggregatePresent">>],
     [anyOf |-> <<>>],
     [allOf |-> <<"FROM", "SELECT">>],
     [allOf |-> <<"GROUP BY", "AggregatePresent">>],
     [allOf |-> <<>>] >>

UpstreamChoices == SUBSET {"SELECT", "FROM", "JOIN", "GROUP BY"}

CheckRequires ==
  /\ call = NoCall
  /\ \E upstreamValues \in UpstreamChoices, aggregatePresent \in BOOLEAN :
       LET context == [aggregatePresent |-> aggregatePresent]
       IN \/ \E k \in Keywords :
               call' = [ fn       |-> "checkRequires",
                         node     |-> k,
                         upstream |-> upstreamValues,
                         context  |-> context,
                         result   |-> checkRequires(k, upstreamValues, context) ]
          \/ \E n \in 0..MaxRules : \E pick \in [1..n -> DOMAIN RuleChoices] :
               LET node == [ value |-> "HAVING", kind |-> "clause", stage |-> 50,
                             requires |-> [i \in 1..n |-> RuleChoices[pick[i]]] ]
               IN call' = [ fn       |-> "checkRequires",
                            node     |-> node,
                            upstream |-> upstreamValues,
                            context  |-> context,
                            result   |-> checkRequires(node, upstreamValues, context) ]
  /\ UNCHANGED storeVars

SpecRequires == Init /\ [][CheckRequires]_vars

\* the named items of a rule that are present: a keyword value when it is in
\* the upstream set, AggregatePresent when the context flag is set
PresentItems(names, upstream, context) ==
  { v \in Range(names) :
      \/ v # "AggregatePresent" /\ v \in upstream
      \/ v = "AggregatePresent" /\ context.aggregatePresent }

\* C13: checkRequires(node, upstream, ctx) is true exactly when every
\* requirement rule of the node passes: an anyOf rule iff at least one named
\* item is upstream (AggregatePresent standing for ctx.aggregatePresent), an
\* allOf rule iff all named items are; a node without rules is satisfied.
C13_RequiresEveryRule ==
  call.fn = "checkRequires" =>
    LET rules == IF "requires" \in DOMAIN call.node THEN call.node.requires ELSE <<>>
        Passes(rule) ==
          IF "anyOf" \in DOMAIN rule
          THEN PresentItems(rule.anyOf, call.upstream, call.context) # {}
          ELSE PresentItems(rule.allOf, call.upstream, call.context)
                 = Range(rule.allOf)
    IN /\ call.result = (\A i \in DOMAIN rules : Passes(rules[i]))
       /\ rules = <<>> => call.result

C13_Witness ==
  /\ call.fn = "checkRequires"
  /\ "requires" \in DOMAIN call.node
  /\ Len(call.node.requires) = 2
  /\ "allOf" \in DOMAIN call.node.requires[1]
  /\ call.node.requires[1].allOf = <<"GROUP BY", "AggregatePresent">>
  /\ "anyOf" \in DOMAIN call.node.requires[2]
  /\ call.upstream = {"GROUP BY", "FROM"}
  /\ ~call.context.aggregatePresent
  /\ ~call.result

(***************************************************************************)
(* The store with predicate nodes on the canvas                            *)
(***************************************************************************)
MaxEffectNodes == 3

EffectsPalette == {"SELECT", "FROM", "WHERE", "HAVING"}

EffectsNext ==
  \/ \E v \in EffectsPalette :
       /\ nodeIdCounter < MaxEffectNodes
       /\ addNode(Keyword(v))
       /\ UNCHANGED <<call, connectionInfo, generatedSQL, loopVars>>
  \/ \E i \in DOMAIN nodes : \E p \in Patches(nodes[i].data.label) :
       updateNodeData(nodes[i].id, p) /\ UNCHANGED <<call, connectionInfo, generatedSQL, loopVars>>
  \/ \E s \in 1..MaxEffectNodes, t \in 1..MaxEffectNodes :
       /\ Len(edges) < MaxEdges
       /\ onConnect(s, t)
       /\ UNCHANGED <<call, connectionInfo, generatedSQL, loopVars>>
  \/ clearQueryError /\ UNCHANGED <<call, connectionInfo, generatedSQL, loopVars>>

SpecEffects == Init /\ [][EffectsNext]_vars

\* every SELECT has selectedColumns = [] and every WHERE and HAVING has
\* conditions = []
AllReset(ns) ==
  \A j \in DOMAIN ns :
    /\ ns[j].data.label = "SELECT" =>
         /\ "selectedColumns" \in DOMAIN ns[j].data.config
         /\ ns[j].data.config.selectedColumns = <<>>
    /\ ns[j].data.label \in {"WHERE", "HAVING"} =>
         /\ "conditions" \in DOMAIN ns[j].data.config
         /\ ns[j].data.config.conditions = <<>>

\* the step is updateNodeData(id, {selectedTable: ...}) on a FROM node
IsFromTableChange ==
  /\ lastOp'.op = "updateNodeData"
  /\ edges' = edges
  /\ \E i \in DOMAIN nodes :
       /\ nodes[i].data.label = "FROM"
       /\ Len(nodes') = Len(nodes)
       /\ "selectedTable" \in DOMAIN nodes'[i].data.config
       /\ \/ "selectedTable" \notin DOMAIN nodes[i].data.config
          \/ nodes[i].data.config.selectedTable # nodes'[i].data.config.selectedTable

\* C14: after updateNodeData changes the selectedTable of a FROM node, every
\* SELECT node has selectedColumns = [] and every WHERE and HAVING node has
\* conditions = [], however (or whether) they are connected to the FROM node.
C14_FromTableChangeResetsAll ==
  [][IsFromTableChange => AllReset(nodes')]_vars

\* C14 witness: a FROM table change has just reset other nodes on a canvas
\* without any edge that holds a WHERE and a HAVING node.
C14_Witness ==
  /\ lastOp.op = "updateNodeData"
  /\ lastOp.cascaded
  /\ edges = <<>>
  /\ \E i, j, k \in DOMAIN nodes :
       /\ nodes[i].data.label = "FROM"
       /\ "selectedTable" \in DOMAIN nodes[i].data.config
       /\ nodes[j].data.label = "WHERE"
       /\ nodes[k].data.label = "HAVING"
  /\ AllReset(nodes)

\* the pair is outside stage ordering: a modifier target, or an endpoint
\* without a numeric stage
StageExempt(from, to) ==
  to.kind = "modifier" \/ ~HasStage(from) \/ ~HasStage(to)

\* C15: stage ordering never rejects an edge whose target kind is 'modifier'
\* or for which either endpoint lacks a numeric stage: for such pairs
\* allowedEdge(a, b) is true exactly when b's kind is among the kinds
\* reachable from a's kind; and allowedEdge is false for every pair whose
\* target kind is not among them.
C15_ExemptPairsFollowKindGraph ==
  call.fn = "allowedEdge" =>
    /\ StageExempt(call.from, call.to) =>
         (call.result <=> call.to.kind \in KindsAfter(call.from.kind))
    /\ call.to.kind \notin KindsAfter(call.from.kind) => ~call.result

\* C15 witness: a staged clause connected to a modifier of a lower stage
\* (FROM, stage 20, to DISTINCT, stage 11) is allowed.
C15_Witness ==
  /\ call.fn = "allowedEdge"
  /\ HasStage(call.from) /\ HasStage(call.to)
  /\ call.from.kind = "clause"
  /\ call.to.kind = "modifier"
  /\ call.to.stage < call.from.stage
  /\ call.result

(***************************************************************************)
(* The two graph walks, one call of traverse per step                      *)
(***************************************************************************)
MaxWalkNodes == 3
MaxWalkEdges == 3
MaxWalkCalls == 8

\* a SELECT node, then a staged clause, then a modifier without stage
WalkLabels == <<"SELECT", "FROM", "AS">>

WalkNodeLists ==
  { [i \in 1..n |-> NewNode(i, Keyword(WalkLabels[i]))] : n \in 1..MaxWalkNodes }

\* any edges between the nodes: self-loops, cycles and repeated edges included
WalkEdgeLists(n) ==
  UNION { [1..m -> { [source |-> p[1], target |-> p[2]] : p \in (1..n) \X (1..n) }] :
            m \in 0..MaxWalkEdges }

\* A plausible slip: traverse without its visited check.
TraverseEnterUnchecked(w, nodeId) ==
  LET node == FindNode(w.nodes, nodeId)
      sorted == sortedChildren(w.nodes, w.edges, nodeId)
  IN [w EXCEPT !.calls = @ + 1,
               !.visitedNodes = @ \cup {nodeId},
               !.orderedNodes = IF node = NullNode THEN @ ELSE Append(@, node),
               !.stack = Append(@, [i \in DOMAIN sorted |-> sorted[i].id])]

\* one call traverse(nodeId) of generateSQL, up to its forEach: the frame
\* pushed holds the sorted children still to be descended
TraverseEnter(w, nodeId) ==
  IF nodeId \in w.visitedNodes THEN [w EXCEPT !.calls = @ + 1]
  ELSE LET node == FindNode(w.nodes, nodeId)
           sorted == sortedChildren(w.nodes, w.edges, nodeId)
       IN [w EXCEPT !.calls = @ + 1,
                    !.visitedNodes = @ \cup {nodeId},
                    !.orderedNodes = IF node = NullNode THEN @ ELSE Append(@, node),
                    !.stack = Append(@, [i \in DOMAIN sorted |-> sorted[i].id])]

\* edges.filter((e) => e.target === nodeId)
IncomingEdges(es, nodeId) == SelectSeq(es, LAMBDA e : e.target = nodeId)

\* one call traverse(nodeId) of getUpstreamNodes, up to its for loop: the
\* frame pushed holds the incoming edges still to be followed
UpstreamEnter(w, nodeId) ==
  IF nodeId \in w.visited THEN [w EXCEPT !.calls = @ + 1]
  ELSE [w EXCEPT !.calls = @ + 1,
                 !.visited = @ \cup {nodeId},
                 !.stack = Append(@, IncomingEdges(w.edges, nodeId))]

\* traverse(selectNode.id) of generateSQL is about to be called
StartTraverse(ns, es) ==
  [ fn           |-> "traverse",
    nodes        |-> ns,
    edges        |-> es,
    stack        |-> << <<FindSelect(ns).id>> >>,
    visitedNodes |-> {},
    orderedNodes |-> <<>>,
    calls        |-> 0,
    done         |-> FALSE ]

\* the next iteration of the innermost forEach, or its end
TraverseStep ==
  /\ call.fn = "traverse"
  /\ ~call.done
  /\ call.calls < MaxWalkCalls
  /\ LET depth == Len(call.stack)
     IN IF depth = 0 THEN call' = [call EXCEPT !.done = TRUE]
        ELSE IF call.stack[depth] = <<>>
             THEN call' = [call EXCEPT !.stack = SubSeq(@, 1, depth - 1)]
             ELSE call' = TraverseEnter([call EXCEPT !.stack[depth] = Tail(@)],
                                        Head(call.stack[depth]))
  /\ UNCHANGED storeVars

\* getUpstreamNodes(targetNodeId, nodes, edges) has called traverse(targetNodeId)
StartUpstream(ns, es, targetNodeId) ==
  UpstreamEnter([ fn       |-> "getUpstreamNodes",
                  nodes    |-> ns,
                  edges    |-> es,
                  target   |-> targetNodeId,
                  stack    |-> <<>>,
                  visited  |-> {},
                  upstream |-> <<>>,
                  calls    |-> 0,
                  done     |-> FALSE ], targetNodeId)

\* the next iteration of the innermost for loop over incomingEdges, or its end
UpstreamStep ==
  /\ call.fn = "getUpstreamNodes"
  /\ ~call.done
  /\ call.calls < MaxWalkCalls
  /\ LET depth == Len(call.stack)
     IN IF depth = 0 THEN call' = [call EXCEPT !.done = TRUE]
        ELSE IF call.stack[depth] = <<>>
             THEN call' = [call EXCEPT !.stack = SubSeq(@, 1, depth - 1)]
             ELSE LET edge == Head(call.stack[depth])
                      rest == [call EXCEPT !.stack[depth] = Tail(@)]
                      sourceNode == FindNode(call.nodes, edge.source)
                  IN IF sourceNode = NullNode THEN call' = rest
                     ELSE call' = UpstreamEnter(
                                    [rest EXCEPT !.upstream = Append(@, sourceNode)],
                                    sourceNode.id)
  /\ UNCHANGED storeVars

\* a walk starts on any graph of the family, the backward walk at any node
WalkInit ==
  /\ StoreInit
  /\ \E ns \in WalkNodeLists : \E es \in WalkEdgeLists(Len(ns)) :
       \/ call = StartTraverse(ns, es)
       \/ \E targetNodeId \in 1..Len(ns) : call = StartUpstream(ns, es, targetNodeId)

WalkNext == TraverseStep \/ UpstreamStep

\* Each loop iteration that is enabled is eventually executed: the walks run
\* synchronously on the single JavaScript thread.
SpecWalk ==
  WalkInit /\ [][WalkNext]_vars /\ WF_vars(TraverseStep) /\ WF_vars(UpstreamStep)

IsWalk == call.fn \in {"traverse", "getUpstreamNodes"}

\* the nodes the walk has listed so far
Listed == IF call.fn = "traverse" THEN call.orderedNodes ELSE call.upstream

NoRepeat(list) == \A i, j \in DOMAIN list : list[i].id = list[j].id => i = j

Occurrences(list, id) == Cardinality({i \in DOMAIN list : list[i].id = id})

OutDegree(es, id) == Cardinality({i \in DOMAIN es : es[i].source = id})

\* C16 as stated: both walks terminate and list each node at most once.
C16_EachNodeListedAtMostOnce ==
  IsWalk => NoRepeat(Listed)

\* C16: the traversal inside generateSQL terminates on every finite graph,
\* cycles and self-loops included, after at most 1 + |edges| calls of traverse,
\* and places each node in the emission order at most once; the backward walk
\* getUpstreamNodes terminates within the same number of calls and enters each
\* node at most once, but lists a node once for every edge followed out of it,
\* so at most as often as the node has outgoing edges.
C16_WalksTerminate ==
  /\ [](IsWalk =>
          /\ call.calls <= 1 + Len(call.edges)
          /\ call.fn = "traverse" =>
               /\ NoRepeat(call.orderedNodes)
               /\ call.done =>
                    call.orderedNodes =
                      orderedNodes(call.nodes, call.edges, FindSelect(call.nodes))
          /\ call.fn = "getUpstreamNodes" =>
               \A i \in DOMAIN call.nodes :
                 Occurrences(call.upstream, call.nodes[i].id)
                   <= OutDegree(call.edges, call.nodes[i].id))
  /\ (IsWalk ~> (IsWalk /\ call.done))

\* C16 witness: the traversal has finished on a graph with a self-loop and a
\* cycle through SELECT, having listed every node once.
C16_Witness ==
  /\ call.fn = "traverse"
  /\ call.done
  /\ Len(call.orderedNodes) = 2
  /\ \E i, j, k \in DOMAIN call.edges :
       /\ call.edges[i].source = call.edges[i].target
       /\ call.edges[j] = [source |-> 1, target |-> 2]
       /\ call.edges[k] = [source |-> 2, target |-> 1]

\* the backward walk has finished with a node listed twice
C16_UpstreamListsNodeTwice ==
  /\ call.fn = "getUpstreamNodes"
  /\ call.done
  /\ ~NoRepeat(call.upstream)
  /\ \A i, j \in DOMAIN call.edges :
       /\ call.edges[i].source # call.edges[i].target
       /\ call.edges[i] = call.edges[j] => i = j

\* the sort key the ordering rule gives a neighbour: its stage, and a key
\* above every stage of the registry when it has none
KeyStagelessLast(node) ==
  IF HasStage(node.data.meta) THEN node.data.meta.stage ELSE 1000

\* the neighbours in the order of the rule: those with a stage by ascending
\* stage, then those without, each group in edge-insertion order among equals
NeighboursStagelessLast(ns, es, nodeId) ==
  LET found == FoundNodes(ns, Children(es, nodeId))
  IN SortByStage(SelectSeq(found, LAMBDA n : HasStage(n.data.meta)))
       \o SelectSeq(found, LAMBDA n : ~HasStage(n.data.meta))

\* C17: at each node of the depth-first traversal the outgoing neighbours are
\* descended in ascending pipeline-stage order, every neighbour without a
\* stage after all neighbours that have one, ties keeping edge-insertion
\* order.
C17_StagelessNeighboursDescendedLast ==
  (call.fn = "traverse" /\ call.done) =>
    \A i \in DOMAIN call.orderedNodes :
      LET sorted == sortedChildren(call.nodes, call.edges, call.orderedNodes[i].id)
      IN /\ sorted = NeighboursStagelessLast(call.nodes, call.edges,
                                             call.orderedNodes[i].id)
         /\ \A j, k \in DOMAIN sorted :
              j < k => KeyStagelessLast(sorted[j]) <= KeyStagelessLast(sorted[k])

\* C17 witness: SELECT has the edges to FROM and then to AS; the traversal has
\* finished and descended into AS, which has no stage, before FROM.
C17_StagelessDescendedFirst ==
  /\ call.fn = "traverse"
  /\ call.done
  /\ call.edges = << [source |-> 1, target |-> 2], [source |-> 1, target |-> 3] >>
  /\ Len(call.orderedNodes) = 3
  /\ call.orderedNodes[2].data.label = "AS"
  /\ call.orderedNodes[3].data.label = "FROM"

\* the connective an item stores, "" when it stores none
StoredConnective(item) ==
  IF IsGroup(item)
  THEN (IF "parentLogicalOp" \in DOMAIN item THEN item.parentLogicalOp ELSE "")
  ELSE (IF "logicalOp" \in DOMAIN item THEN item.logicalOp ELSE "")

\* the PredicateItem invariant at every nesting level: the first item stores
\* no connective, every later item stores one
RECURSIVE WellFormedSequence(_)
WellFormedSequence(items) ==
  \A i \in DOMAIN items :
    /\ (i = 1) <=> (StoredConnective(items[i]) = "")
    /\ IsGroup(items[i]) => WellFormedSequence(items[i].conditions)

HasSubstring(s, sub) ==
  \E i \in 1..Len(s) : i + Len(sub) - 1 <= Len(s) /\ SubSeq(s, i, i + Len(sub) - 1) = sub

\* C18: for every predicate sequence satisfying the PredicateItem invariant at
\* every nesting level, the string buildPredicateSQL produces is empty or
\* begins with a condition or "(", never with AND/OR, and no parenthesis opens
\* on a connective; this holds also when items are skipped.
C18_NeverStartsWithConnective ==
  ( /\ call.fn = "buildPredicateSQL"
    /\ WellFormedSequence(call.conditions) )
  => /\ ~StartsWith(call.result, "AND ")
     /\ ~StartsWith(call.result, "OR ")
     /\ ~HasSubstring(call.result, "(AND ")
     /\ ~HasSubstring(call.result, "(OR ")

\* C18 witness: the first condition has no column yet and is skipped, the
\* second one is rendered with its stored connective in front.
C18_SkippedFirstItemLeavesConnective ==
  /\ call.fn = "buildPredicateSQL"
  /\ WellFormedSequence(call.conditions)
  /\ Len(call.conditions) = 2
  /\ call.conditions[1] = Condition("", "=", "1", "")
  /\ call.conditions[2] = Condition("a.age", ">", "18", "AND")
  /\ call.result = "AND \"age\" > '18'"

\* the FROM nodes with a configured table that the traversal from SELECT reaches
ConfiguredFromNodes ==
  LET selectNode == FindSelect(nodes)
      reached == IF selectNode = NullNode THEN <<>>
                 ELSE orderedNodes(nodes, edges, selectNode)
  IN { i \in DOMAIN reached :
         /\ reached[i].data.label = "FROM"
         /\ "selectedTable" \in DOMAIN reached[i].data.config
         /\ reached[i].data.config.selectedTable # "" }

\* C19: explicit FROM configuration is authoritative: whenever a FROM node
\* reachable from SELECT has a configured table, the FROM clause of the
\* generated SQL names that table; the table inferred from SELECT's first
\* column is used only when no FROM clause has otherwise been resolved.
C19_ExplicitFromAuthoritative ==
  ( /\ lastOp.op = "generateAndExecute"
    /\ ConfiguredFromNodes # {} )
  => LET reached == orderedNodes(nodes, edges, FindSelect(nodes))
         first == CHOOSE i \in ConfiguredFromNodes :
                    \A j \in ConfiguredFromNodes : i <= j
         table == reached[first].data.config.selectedTable
     IN Includes(Split(generatedSQL, "\n"), "FROM " \o Quoted(LastSegment(table)))

\* C19 witness: SELECT public.t.c1 is connected to a FROM node configured with
\* public.u, and the SQL just generated reads from t.
C19_InferredTableOverridesFrom ==
  /\ lastOp.op = "generateAndExecute"
  /\ ConfiguredFromNodes # {}
  /\ \E i \in DOMAIN nodes :
       /\ nodes[i].data.label = "FROM"
       /\ "selectedTable" \in DOMAIN nodes[i].data.config
       /\ nodes[i].data.config.selectedTable = "public.u"
  /\ generatedSQL = "SELECT \"c1\"\nFROM \"t\""

(***************************************************************************)
(* generateSQL applied to graphs with aggregate and DISTINCT nodes.  No    *)
(* kind of KIND_GRAPH admits an aggregate as target, so the edges into     *)
(* aggregate nodes are edges installed with setEdges, not by onConnect.    *)
(***************************************************************************)
MaxAggNodes == 3

AggTemplates ==
  << [label |-> "SELECT", config |-> [selectedColumns |-> <<>>]],
     [label |-> "SELECT", config |-> [selectedColumns |-> <<"public.t.c1">>]],
     [label |-> "DISTINCT", config |-> EmptyObj],
     [label |-> "FROM", config |-> [selectedTable |-> "public.t"]],
     [label |-> "COUNT", config |-> [aggregateColumn |-> "public.t.c1"]],
     [label |-> "SUM", config |-> [aggregateColumn |-> "t.c2", alias |-> "total"]],
     [label |-> "COUNT", config |-> EmptyObj] >>

AggEdgeLists(ns) ==
  { es \in UNION { [1..k -> { [source |-> p[1], target |-> p[2]] :
                                p \in (1..Len(ns)) \X (1..Len(ns)) }] :
                     k \in 0..MaxGenEdges } :
      \A i, j \in DOMAIN es : i # j => es[i] # es[j] }

CompileAggregate ==
  /\ call = NoCall
  /\ \E n \in 0..MaxAggNodes :
       \E pick \in [1..n -> DOMAIN AggTemplates] :
         LET ns == [i \in 1..n |-> GenNode(i, AggTemplates[pick[i]])]
         IN \E es \in AggEdgeLists(ns) :
              call' = [ fn     |-> "generateSQL",
                        nodes  |-> ns,
                        edges  |-> es,
                        schema |-> NoSchema,
                        result |-> generateSQL(ns, es, NoSchema) ]
  /\ UNCHANGED storeVars

SpecAggregate == Init /\ [][CompileAggregate]_vars

\* the function-call expression of a configured aggregate node
AggregateExpression(node) ==
  node.data.label \o "(" \o Quoted(LastSegment(node.data.config.aggregateColumn)) \o ")"
    \o (IF "alias" \in DOMAIN node.data.config
        THEN " AS " \o node.data.config.alias ELSE "")

\* the nodes generateSQL visits, in order ( <<>> without a SELECT node )
Visited ==
  IF FindSelect(call.nodes) = NullNode THEN <<>>
  ELSE orderedNodes(call.nodes, call.edges, FindSelect(call.nodes))

\* C20: when an aggregate node with a configured column is visited after
\* SELECT, it writes no clause slot of its own and the SELECT clause contains
\* its function-call expression: a bare * projection (also after DISTINCT was
\* spliced in) is replaced by the expression, otherwise the expression is
\* appended to the existing projection list.
C20_AggregateReplacesBareStar ==
  ( /\ IsCompile
    /\ Cardinality(NodesLabelled(call.nodes, {"SELECT"})) = 1 )
  => \A i \in DOMAIN Visited :
       ( /\ Visited[i].data.label \in AggregateKeywords
         /\ "aggregateColumn" \in DOMAIN Visited[i].data.config )
       => LET select == FirstLine(call.result)
              expr == AggregateExpression(Visited[i])
          IN /\ \A l \in DOMAIN Split(call.result, "\n") :
                  ~StartsWith(Split(call.result, "\n")[l], Visited[i].data.label)
             /\ HasSubstring(select, expr)
             /\ IF Selection(Visited[1]) = <<>>
                THEN ~HasSubstring(select, "*")
                ELSE HasSubstring(select, ", " \o expr)

\* C20 witness: SELECT without columns, then DISTINCT, then COUNT(c1): the
\* star stays in the projection and the expression is appended to it.
C20_StarKeptAfterDistinct ==
  /\ IsCompile
  /\ Len(call.nodes) = 3
  /\ Len(Visited) = 3
  /\ Visited[2].data.label = "DISTINCT"
  /\ Visited[3].data.label = "COUNT"
  /\ call.result = "SELECT DISTINCT *, COUNT(\"c1\")"

(***************************************************************************)
(* runValidator applied to min and max validators                          *)
(***************************************************************************)
MaxBoundValue == 2

\* min and max validators with an integer bound, or with none
BoundValidators ==
  { [type |-> ty, value |-> b, message |-> "out of bounds"] :
      ty \in {"min", "max"}, b \in (0 - MaxBoundValue)..MaxBoundValue }
  \cup { [type |-> ty, message |-> "out of bounds"] : ty \in {"min", "max"} }

BoundedValues ==
  { JsNumber(n) : n \in (0 - MaxBoundValue - 1)..(MaxBoundValue + 1) }
  \cup { JsString(s) : s \in {"", "a", "ab", "abc"} }
  \cup { JsArray(a) : a \in { <<>>, <<JsString("a")>>,
                              <<JsString("a"), JsNumber(1)>>,
                              <<JsNumber(1), JsNumber(2), JsNumber(3)>> } }
  \cup { JsUndefined, JsNull }

CheckBound ==
  /\ call = NoCall
  /\ \E validator \in BoundValidators, value \in BoundedValues :
       call' = [ fn        |-> "runValidator",
                 validator |-> validator,
                 value     |-> value,
                 result    |-> runValidator(validator, value) ]
  /\ UNCHANGED storeVars

SpecBounds == Init /\ [][CheckBound]_vars

\* the quantity a min or max validator measures: the number itself, or the
\* length of a string or an array; other values have none
Measures(value) == value.t \in {"number", "string", "array"}

Measure(value) == IF value.t = "number" THEN value.n ELSE JsLength(value)

\* C21: a min (resp. max) validator fails exactly when the numeric value,
\* string length or array length is below (resp. above) its configured bound,
\* for every integer bound including 0; a min or max validator with no bound
\* configured never fails.
C21_FailsExactlyOutsideBound ==
  call.fn = "runValidator" =>
    LET failed == call.result # <<>>
    IN IF "value" \in DOMAIN call.validator
       THEN failed <=>
              /\ Measures(call.value)
              /\ IF call.validator.type = "min"
                 THEN Measure(call.value) < call.validator.value
                 ELSE Measure(call.value) > call.validator.value
       ELSE ~failed

\* C21 witness: a max validator with bound 0 accepts the number 1.
C21_MaxZeroAcceptsOne ==
  /\ call.fn = "runValidator"
  /\ call.validator.type = "max"
  /\ "value" \in DOMAIN call.validator
  /\ call.validator.value = 0
  /\ call.value = JsNumber(1)
  /\ call.result = <<>>

\* C21 second witness: a min validator without bound rejects the number -1.
C21_MinWithoutBoundRejectsNegative ==
  /\ call.fn = "runValidator"
  /\ call.validator.type = "min"
  /\ "value" \notin DOMAIN call.validator
  /\ call.value = JsNumber(0 - 1)
  /\ call.result # <<>>

(***************************************************************************)
(* validateNode and validateAllNodes applied to whole nodes                *)
(***************************************************************************)
MaxValidatedNodes == 3

\* label and config of the nodes validated: valid and invalid ones
ValidatedTemplates ==
  << [label |-> "SELECT", config |-> [selectedColumns |-> <<>>]],
     [label |-> "FROM", config |-> EmptyObj],
     [label |-> "FROM", config |-> [selectedTable |-> "public.t"]],
     [label |-> "LIMIT", config |-> EmptyObj],
     [label |-> "LIMIT", config |-> [limitValue |-> 0]],
     [label |-> "LIMIT", config |-> [limitValue |-> 10]] >>

ValidateAll ==
  /\ call = NoCall
  /\ \E n \in 0..MaxValidatedNodes :
       \E pick \in [1..n -> DOMAIN ValidatedTemplates] :
         LET ns == [i \in 1..n |-> GenNode(i, ValidatedTemplates[pick[i]])]
             errors == validateAllNodes(ns)
         IN call' = [ fn      |-> "validateAllNodes",
                      nodes   |-> ns,
                      errors  |-> errors,
                      isValid |-> Len(errors) = 0 ]
  /\ UNCHANGED storeVars

SpecValidateAll == Init /\ [][CheckValidate \/ ValidateAll]_vars

\* the <<field, validator>> index pairs of the failing validators of the
\* visible fields
FailingPairs(fields, config) ==
  { p \in (DOMAIN fields) \X (1..3) :
      /\ p[2] \in DOMAIN FieldValidators(fields[p[1]])
      /\ "conditional" \in DOMAIN fields[p[1]]
           => RuleHolds(fields[p[1]].conditional, config)
      /\ ValidatorFails(FieldValidators(fields[p[1]])[p[2]],
                        JsGet(config, fields[p[1]].key)) }

\* field order, then validator-declaration order
Before(p, q) == p[1] < q[1] \/ (p[1] = q[1] /\ p[2] < q[2])

\* errors is the list of one error per failing pair, in that order
OneErrorPerFailure(errors, nodeId, fields, config) ==
  LET pairs == FailingPairs(fields, config)
  IN /\ Len(errors) = Cardinality(pairs)
     /\ \A p \in pairs :
          errors[1 + Cardinality({q \in pairs : Before(q, p)})]
            = [ nodeId   |-> nodeId,
                fieldKey |-> fields[p[1]].key,
                message  |-> FieldValidators(fields[p[1]])[p[2]].message ]

\* the errors of the nodes before position i
ErrorsBefore(ns, i) ==
  LET RECURSIVE Count(_)
      Count(k) == IF k = 0 THEN 0
                  ELSE Count(k - 1)
                         + Cardinality(FailingPairs(RegistryFields(ns[k].data.label),
                                                    TypedConfig(ns[k].data.config)))
  IN Count(i - 1)

\* C22: validation never short-circuits: validateNode returns exactly one
\* error per failing validator of every visible field, in field order then
\* validator-declaration order, each carrying the node id, the field key and
\* the validator's message; validateAllNodes returns the concatenation of
\* validateNode over the nodes in node order, and isValid is true iff that
\* list is empty.
C22_OneErrorPerFailingValidator ==
  /\ call.fn = "validateNode" =>
       OneErrorPerFailure(call.result, 1, call.fields, call.config)
  /\ call.fn = "validateAllNodes" =>
       /\ call.isValid <=> (call.errors = <<>>)
       /\ Len(call.errors) = ErrorsBefore(call.nodes, Len(call.nodes) + 1)
       /\ \A i \in DOMAIN call.nodes :
            LET from == ErrorsBefore(call.nodes, i)
                to == ErrorsBefore(call.nodes, i + 1)
            IN OneErrorPerFailure(
                 SubSeq(call.errors, from + 1, to), call.nodes[i].id,
                 RegistryFields(call.nodes[i].data.label),
                 TypedConfig(call.nodes[i].data.config))

\* C22 witness: one field with two failing validators gave two errors, and a
\* later field a third one.
C22_Witness ==
  /\ call.fn = "validateNode"
  /\ Len(call.result) = 3
  /\ call.result[1].fieldKey = "x"
  /\ call.result[2].fieldKey = "x"
  /\ call.result[1].message # call.result[2].message
  /\ call.result[3].fieldKey = "y"

(***************************************************************************)
(* The effect propagator applied to rule lists.  The registry declares two *)
(* rules that never write the same key twice, so the rules here are drawn  *)
(* from the NodeEffect type: up to MaxRuleCount rules of up to             *)
(* MaxTargetCount targets each, on a FROM node that triggers them.         *)
(***************************************************************************)
MaxRuleCount == 2
MaxTargetCount == 2

TargetChoices ==
  << [targetNodeValues |-> {"SELECT"}, action |-> "reset",
      configKey |-> "selectedColumns", newValue |-> <<>>],
     [targetNodeValues |-> {"SELECT"}, action |-> "update",
      configKey |-> "selectedColumns", newValue |-> <<"public.t.a">>],
     [targetNodeValues |-> {"SELECT", "WHERE"}, action |-> "update",
      configKey |-> "alias", newValue |-> "r"],
     [targetNodeValues |-> {"WHERE", "HAVING"}, action |-> "reset",
      configKey |-> "conditions", newValue |-> <<>>],
     [targetNodeValues |-> {"SELECT", "WHERE"}, action |-> "validate"],
     [targetNodeValues |-> {"SELECT"}, action |-> "update",
      configKey |-> "selectedColumns"] >>

TriggerChoices ==
  { [nodeValue |-> "FROM", configKey |-> "selectedTable"],
    [nodeValue |-> "FROM", configKey |-> "alias"],
    [nodeValue |-> "SELECT", configKey |-> "selectedTable"] }

RuleChoiceSet ==
  { [trigger |-> tr, targets |-> [i \in DOMAIN pick |-> TargetChoices[pick[i]]]] :
      tr \in TriggerChoices,
      pick \in UNION { [1..m -> DOMAIN TargetChoices] : m \in 1..MaxTargetCount } }

RuleLists == UNION { [1..n -> RuleChoiceSet] : n \in 0..MaxRuleCount }

\* the canvas the rules act on: the triggering FROM node, a SELECT and a WHERE
RuleNodes ==
  << GenNode(1, [label |-> "FROM", config |-> EmptyObj]),
     GenNode(2, [label |-> "SELECT",
                 config |-> [selectedColumns |-> <<"public.t.x">>]]),
     GenNode(3, [label |-> "WHERE", config |-> [conditions |-> <<Cond1>>]]) >>

\* the config objects passed to updateNodeData, as <<key, value>> entries
RulePatches ==
  { << <<"selectedTable", "public.t">> >>,
    << <<"alias", "f">> >>,
    << <<"selectedTable", "public.t">>, <<"alias", "f">> >>,
    << <<"alias", "f">>, <<"selectedTable", "public.t">> >> }

\* the loop of updateNodeData over Object.keys(config), for a trigger keyword
\* whose config.effects is `effects`
RECURSIVE RulesPerKey(_, _, _, _)
RulesPerKey(effects, triggerNode, keys, updatedNodes) ==
  IF keys = <<>> THEN updatedNodes
  ELSE LET result == IF effects = <<>>
                     THEN [updatedNodes |-> updatedNodes, shouldRegenerate |-> FALSE]
                     ELSE ExecuteRules(effects, triggerNode, Head(keys), updatedNodes)
       IN RulesPerKey(effects, triggerNode, Tail(keys),
            IF result.shouldRegenerate THEN result.updatedNodes ELSE updatedNodes)

\* state.nodes.map(...) of updateNodeData: the patch merged into the node
MergedNodes(ns, nodeId, patch) ==
  [i \in DOMAIN ns |->
     IF ns[i].id = nodeId
     THEN WithConfig(ns[i], Merge(ns[i].data.config, patch)) ELSE ns[i]]

\* executeNodeEffects(triggerNode, changedConfigKey, context) on its own
ExecuteEffects ==
  /\ call = NoCall
  /\ \E effects \in RuleLists, key \in {"selectedTable", "alias"} :
       LET result == IF effects = <<>>
                     THEN [updatedNodes |-> RuleNodes, shouldRegenerate |-> FALSE]
                     ELSE ExecuteRules(effects, RuleNodes[1], key, RuleNodes)
       IN call' = [ fn      |-> "executeNodeEffects",
                    effects |-> effects,
                    keys    |-> <<key>>,
                    given   |-> RuleNodes,
                    changed |-> result.shouldRegenerate,
                    result  |-> result.updatedNodes ]
  /\ UNCHANGED storeVars

\* updateNodeData(nodeId, config) on the FROM node
UpdateWithRules ==
  /\ call = NoCall
  /\ \E effects \in RuleLists, patch \in RulePatches :
       LET merged == MergedNodes(RuleNodes, 1, patch)
       IN call' = [ fn      |-> "updateNodeData",
                    effects |-> effects,
                    keys    |-> ObjectKeys(patch),
                    given   |-> merged,
                    result  |-> RulesPerKey(effects, FindNode(merged, 1),
                                            ObjectKeys(patch), merged) ]
  /\ UNCHANGED storeVars

SpecRules == Init /\ [][ExecuteEffects \/ UpdateWithRules]_vars

IsEffectCall == call.fn \in {"executeNodeEffects", "updateNodeData"}

\* does the target write its configKey (reset, or update with a value)?
IsWrite(target) ==
  /\ "configKey" \in DOMAIN target
  /\ \/ target.action = "reset"
     \/ target.action = "update" /\ "newValue" \in DOMAIN target

\* the targets of the rules in declaration order
RECURSIVE TargetsInOrder(_)
TargetsInOrder(effects) ==
  IF effects = <<>> THEN <<>>
  ELSE Head(effects).targets \o TargetsInOrder(Tail(effects))

\* the targets fired by the changed keys on a node of this label: key order,
\* then rule-declaration order, then target-list order
RECURSIVE FiredTargets(_, _, _)
FiredTargets(effects, label, keys) ==
  IF keys = <<>> THEN <<>>
  ELSE TargetsInOrder(SelectSeq(effects, LAMBDA e :
                        e.trigger.nodeValue = label /\ e.trigger.configKey = Head(keys)))
         \o FiredTargets(effects, label, Tail(keys))

\* the positions of the fired targets that write key c of a node labelled l
WritesTo(fired, l, c) ==
  { j \in DOMAIN fired :
      IsWrite(fired[j]) /\ fired[j].configKey = c /\ l \in fired[j].targetNodeValues }

Last(S) == CHOOSE j \in S : \A k \in S : k <= j

\* C23: effects of one field change are applied in rule-declaration order,
\* then target-list order; when one updateNodeData call changes several
\* fields their effects are applied in the order of the changed keys; when
\* two effects write the same configuration key of the same target node, the
\* final value is the one written by the later effect.
C23_LastWriteWins ==
  IsEffectCall =>
    LET fired == FiredTargets(call.effects, "FROM", call.keys)
    IN /\ Len(call.result) = Len(call.given)
       /\ \A i \in DOMAIN call.given :
            LET l == call.given[i].data.label
                old == call.given[i].data.config
                new == call.result[i].data.config
                written == { c \in {"selectedColumns", "alias", "conditions"} :
                               WritesTo(fired, l, c) # {} }
            IN /\ DOMAIN new = DOMAIN old \cup written
               /\ \A c \in DOMAIN new :
                    new[c] = IF c \in written
                             THEN fired[Last(WritesTo(fired, l, c))].newValue
                             ELSE old[c]

\* C23 witness: one change fired two rules that both wrote selectedColumns of
\* SELECT, first [] and then a column; the column is the final value.
C23_Witness ==
  /\ call.fn = "updateNodeData"
  /\ Len(call.keys) = 2
  /\ Len(call.effects) = 2
  /\ LET fired == FiredTargets(call.effects, "FROM", call.keys)
     IN /\ Len(fired) = 2
        /\ IsWrite(fired[1]) /\ fired[1].configKey = "selectedColumns"
        /\ fired[1].newValue = <<>>
        /\ IsWrite(fired[2]) /\ fired[2].configKey = "selectedColumns"
        /\ fired[2].newValue = <<"public.t.a">>
        /\ call.effects[1].trigger.configKey # call.effects[2].trigger.configKey
  /\ call.result[2].data.config.selectedColumns = <<"public.t.a">>

\* the keys of a node labelled l that a fired target may write
WritableKeys(fired, l) ==
  { c \in {"selectedColumns", "alias", "conditions"} : WritesTo(fired, l, c) # {} }

\* C24: executeNodeEffects changes nothing beyond the named configuration key
\* of nodes whose keyword is in a matched reset/update target: validate
\* targets leave every configuration identical, nodes in no matched target
\* set and all other keys of a target node are unchanged, no node is added or
\* removed, and without a rule for the changed key the node list is returned
\* as given with changed = false.
C24_OnlyNamedKeysOfTargetsChange ==
  call.fn = "executeNodeEffects" =>
    LET fired == FiredTargets(call.effects, "FROM", call.keys)
    IN /\ Len(call.result) = Len(call.given)
       /\ \A i \in DOMAIN call.given :
            LET before == call.given[i]
                after == call.result[i]
                keys == WritableKeys(fired, before.data.label)
            IN /\ [after EXCEPT !.data.config = before.data.config] = before
               /\ \A c \in (DOMAIN before.data.config \cup DOMAIN after.data.config)
                             \ keys :
                    /\ c \in DOMAIN before.data.config
                    /\ c \in DOMAIN after.data.config
                    /\ after.data.config[c] = before.data.config[c]
               /\ keys = {} => after = before
       /\ (\A j \in DOMAIN fired : fired[j].action = "validate")
            => call.result = call.given
       /\ fired = <<>> => (call.result = call.given /\ ~call.changed)

\* C24 witness: a rule wrote alias on SELECT and WHERE; their other keys, and
\* the FROM node, are as given.
C24_Witness ==
  /\ call.fn = "executeNodeEffects"
  /\ call.changed
  /\ call.result[1] = call.given[1]
  /\ "alias" \in DOMAIN call.result[2].data.config
  /\ call.result[2].data.config.selectedColumns = <<"public.t.x">>
  /\ "alias" \in DOMAIN call.result[3].data.config
  /\ call.result[3].data.config.conditions = <<Cond1>>

(***************************************************************************)
(* The debounced generate-and-execute loop of the canvas, with its timer,  *)
(* its execute requests in flight and the server's session check           *)
(***************************************************************************)
MaxLoopNodes == 2
MaxRequests == 2

\* the values the timer callback closes over: nodes, edges, schema, connectionInfo
Closure(ns, es, info) == [nodes |-> ns, edges |-> es, connectionInfo |-> info]

\* A plausible slip: the effect without its cleanup, every timeout left pending.
useEffectRunWithoutCleanup(pending, ns, es, info) ==
  pending \cup {Closure(ns, es, info)}

\* a run of the useEffect after a dependency changed: the cleanup of the
\* previous run clears its timeout, then setTimeout(..., 500) arms a new one
useEffectRun(pending, ns, es, info) == {Closure(ns, es, info)}

\* schema of the store for a connectionInfo (set and cleared together)
SchemaOf(info) == IF info = NoConnection THEN NoSchema ELSE info.schema

\* api-client executeQuery(params): the body posted to /api/query
executeQueryAPI(params) == [sql |-> params.sql]

\* query-executor executeQuery(sql, sessionId)
executeQuery(sql, sessionId) == executeQueryAPI([sql |-> sql, sessionId |-> sessionId])

\* app.post("/query"): the answers the server can give to a body; the
\* database either runs the SQL or rejects it
handleQuery(body, active) ==
  IF "sessionId" \notin DOMAIN body \/ body.sessionId \notin active
  THEN {[status |-> 401, error |-> "Invalid or expired session"]}
  ELSE IF body.sql = ""
       THEN {[status |-> 400, error |-> "Missing SQL query"]}
       ELSE {[status |-> 200, session |-> body.sessionId],
             [status |-> 500, error |-> "Query execution failed"]}

\* the canvas mounts on an empty store: the effect runs once
LoopInit ==
  /\ nodes = <<>>
  /\ edges = <<>>
  /\ queryError = Null
  /\ nodeIdCounter = 0
  /\ connectionInfo = NoConnection
  /\ generatedSQL = ""
  /\ lastOp = [op |-> "init"]
  /\ call = NoCall
  /\ queryResults = NoResults
  /\ isExecuting = FALSE
  /\ timers = useEffectRun({}, <<>>, <<>>, NoConnection)
  /\ inFlight = {}
  /\ issued = 0
  /\ connections = {}

\* the render after a store operation: the effect runs again when one of
\* nodes, edges, schema, connectionInfo is a new value
Rerender(changed) ==
  /\ IF changed
     THEN timers' = useEffectRun(timers, nodes', edges', connectionInfo')
     ELSE UNCHANGED timers
  /\ UNCHANGED <<call, isExecuting, inFlight, issued>>

\* the connection modal: connectToDatabase, answered by /connect with a new
\* session, then setConnection
handleConnect ==
  /\ setConnection
  /\ connections' = connections \cup {connectionInfo'.sessionId}
  /\ Rerender(TRUE)
  /\ UNCHANGED queryResults

\* store.disconnect(): the store is cleared; the server is not told
disconnect ==
  /\ connectionInfo # NoConnection
  /\ connectionInfo' = NoConnection
  /\ nodes' = <<>>
  /\ edges' = <<>>
  /\ generatedSQL' = ""
  /\ queryResults' = NoResults
  /\ queryError' = Null
  /\ lastOp' = [op |-> "disconnect"]
  /\ Rerender(TRUE)
  /\ UNCHANGED <<nodeIdCounter, connections>>

\* the callback of setTimeout, up to its await: generate from the closure
\* and send the execute request when there is SQL and a session
timerFires(c) ==
  /\ timers' = timers \ {c}
  /\ UNCHANGED <<nodes, edges, nodeIdCounter, connectionInfo, call, connections>>
  /\ IF Len(c.nodes) = 0
     THEN /\ generatedSQL' = ""
          /\ queryResults' = NoResults
          /\ queryError' = Null
          /\ isExecuting' = FALSE
          /\ lastOp' = [op |-> "timerFires", executed |-> FALSE]
          /\ UNCHANGED <<inFlight, issued>>
     ELSE LET sql == generateSQL(c.nodes, c.edges, SchemaOf(c.connectionInfo))
          IN /\ generatedSQL' = sql
             /\ IF sql # "" /\ c.connectionInfo.sessionId # Null
                THEN /\ issued < MaxRequests
                     /\ isExecuting' = TRUE
                     /\ queryError' = Null
                     /\ issued' = issued + 1
                     /\ inFlight' = inFlight \cup
                          {[id |-> issued + 1, body |-> executeQuery(sql, Null)]}
                     /\ lastOp' = [op |-> "timerFires", executed |-> TRUE]
                     /\ UNCHANGED queryResults
                ELSE /\ isExecuting' = FALSE
                     /\ lastOp' = [op |-> "timerFires", executed |-> FALSE]
                     /\ UNCHANGED <<queryError, queryResults, inFlight, issued>>

\* the rest of the callback, when the answer to a request arrives:
\* setQueryResults(results), or the catch block; then the finally block
response(r, answer) ==
  /\ inFlight' = inFlight \ {r}
  /\ IF answer.status = 200
     THEN /\ queryResults' = [rows |-> r.body.sql, session |-> answer.session]
          /\ UNCHANGED queryError
     ELSE /\ queryError' = answer.error
          /\ queryResults' = NoResults
  /\ isExecuting' = FALSE
  /\ lastOp' = [op |-> "response", id |-> r.id, status |-> answer.status]
  /\ UNCHANGED <<nodes, edges, nodeIdCounter, connectionInfo, generatedSQL, call,
                 timers, issued, connections>>

LoopNext ==
  \/ \E v \in CanvasPalette :
       /\ nodeIdCounter < MaxLoopNodes
       /\ addNode(Keyword(v))
       /\ UNCHANGED <<connectionInfo, generatedSQL, queryResults, connections>>
       /\ Rerender(TRUE)
  \/ \E i \in DOMAIN nodes : \E p \in Patches(nodes[i].data.label) :
       /\ updateNodeData(nodes[i].id, p)
       /\ UNCHANGED <<connectionInfo, generatedSQL, queryResults, connections>>
       /\ Rerender(TRUE)
  \/ \E s \in 1..MaxLoopNodes, t \in 1..MaxLoopNodes :
       /\ Len(edges) < MaxEdges
       /\ onConnect(s, t)
       /\ UNCHANGED <<connectionInfo, generatedSQL, queryResults, connections>>
       /\ Rerender(edges' # edges)
  \/ handleConnect
  \/ disconnect
  \/ \E c \in timers : timerFires(c)
  \/ \E r \in inFlight : \E answer \in handleQuery(r.body, connections) :
       response(r, answer)

\* The canvas with its debounce timer, its requests and the server.
SpecLoop == LoopInit /\ [][LoopNext]_vars

\* the timeouts pending are those of the latest graph and connection
PendingIsLatest ==
  \A c \in timers : c = Closure(nodes, edges, connectionInfo)

\* C25: however many edits fall into the debounce window, one timeout is
\* pending, it compiles the latest nodes and edges, and once it has fired
\* with no further edit generatedSQL is generateSQL(latest nodes, latest
\* edges, schema), whatever was generated or edited before.
C25_DebounceCompilesLatestOnce ==
  /\ Cardinality(timers) <= 1
  /\ PendingIsLatest
  /\ lastOp.op = "timerFires" =>
       generatedSQL = generateSQL(nodes, edges, SchemaOf(connectionInfo))

\* the timer fired after edits made since an earlier generation, and
\* replaced the SQL of that generation
C25_Witness ==
  /\ lastOp.op = "timerFires"
  /\ timers = {}
  /\ Len(nodes) = 2
  /\ Len(edges) = 1
  /\ generatedSQL = "SELECT *\nFROM \"t\""

(***************************************************************************)
(* generateSQL applied to a graph and to the same graph with its edges in  *)
(* another order                                                           *)
(***************************************************************************)
MaxPermNodes == 3
MaxPermEdges == 3

\* the nodes placed after the SELECT node: two tables, two joins, DISTINCT
\* and an aggregate
PermTemplates ==
  << [label |-> "FROM", config |-> [selectedTable |-> "public.t"]],
     [label |-> "FROM", config |-> [selectedTable |-> "public.u"]],
     [label |-> "INNER JOIN",
      config |-> [joinTable |-> "public.a", onColumn |-> "t.id",
                  onReferencedColumn |-> "a.tid"]],
     [label |-> "LEFT JOIN", config |-> [joinTable |-> "b"]],
     [label |-> "DISTINCT", config |-> EmptyObj],
     [label |-> "COUNT", config |-> [aggregateColumn |-> "public.t.c1"]] >>

PermNodeLists ==
  { <<GenNode(1, [label |-> "SELECT", config |-> [selectedColumns |-> <<>>]])>>
      \o [i \in DOMAIN pick |-> GenNode(i + 1, PermTemplates[pick[i]])] :
      pick \in UNION { [1..n -> DOMAIN PermTemplates] : n \in 0..(MaxPermNodes - 1) } }

\* the edges in the order a permutation gives
Permuted(es, p) == [i \in DOMAIN es |-> es[p[i]]]

CompilePermuted ==
  /\ call = NoCall
  /\ \E ns \in PermNodeLists :
       \E es \in { l \in UNION { [1..k -> { [source |-> q[1], target |-> q[2]] :
                                             q \in { r \in (1..Len(ns)) \X (1..Len(ns)) :
                                                       r[1] # r[2] } }] :
                               k \in 0..MaxPermEdges } :
                     \A i, j \in DOMAIN l : i # j => l[i] # l[j] } :
         \E p \in Permutations(DOMAIN es) :
           call' = [ fn       |-> "generateSQL twice",
                     nodes    |-> ns,
                     edges    |-> es,
                     permuted |-> Permuted(es, p),
                     result   |-> generateSQL(ns, es, NoSchema),
                     other    |-> generateSQL(ns, Permuted(es, p), NoSchema) ]
  /\ UNCHANGED storeVars

SpecPermute == Init /\ [][CompilePermuted]_vars

IsPermutedCall == call.fn = "generateSQL twice"

\* no node has two outgoing neighbours with the same sort key
TieFree(ns, es) ==
  \A i, j \in DOMAIN es :
    ( /\ es[i].source = es[j].source
      /\ es[i].target # es[j].target )
    => StageOrZero(FindNode(ns, es[i].target)) # StageOrZero(FindNode(ns, es[j].target))

\* C26 as stated: the output is the same for every order of the same edges.
C26_EdgeOrderIrrelevant ==
  IsPermutedCall => call.result = call.other

\* C26: the output is the same for every order of the same edges when no
\* node has two outgoing neighbours of equal stage; among neighbours of
\* equal stage the order of the edges decides.
C26_EdgeOrderIrrelevantWithoutTies ==
  (IsPermutedCall /\ TieFree(call.nodes, call.edges)) => call.result = call.other

\* a SELECT node with a table and a join drawn join first, compiled again
\* with the edges the other way round
C26_Witness ==
  /\ IsPermutedCall
  /\ TieFree(call.nodes, call.edges)
  /\ Len(call.edges) = 2
  /\ call.edges # call.permuted
  /\ call.edges[1].source = 1
  /\ call.edges[2].source = 1
  /\ call.result = "SELECT *\nFROM \"t\"\nINNER JOIN \"a\" ON \"id\" = \"tid\""

\* two FROM nodes under one SELECT node: the table of the edge drawn first
C26_FirstDrawnFromWins ==
  /\ IsPermutedCall
  /\ Len(call.nodes) = 3
  /\ \A i \in DOMAIN call.edges :
       ConnectionAllowed(FindNode(call.nodes, call.edges[i].source),
                         FindNode(call.nodes, call.edges[i].target))
  /\ call.result = "SELECT *\nFROM \"t\""
  /\ call.other = "SELECT *\nFROM \"u\""

\* C27: what the store shows belongs to the latest execute request: an
\* answer that writes queryResults or queryError is the answer to the
\* request sent last, and isExecuting is false only when no request is in
\* flight.
C27_ResultsBelongToLatestRequest ==
  /\ lastOp.op = "response" => lastOp.id = issued
  /\ ~isExecuting => inFlight = {}

\* the answer to an earlier request arrived after a later request was sent:
\* it wrote its error over the state of the later one and switched
\* isExecuting off while the later request is still in flight
C27_StaleResponseOverwrites ==
  /\ lastOp.op = "response"
  /\ lastOp.id < issued
  /\ \E r \in inFlight : r.id = issued
  /\ ~isExecuting
  /\ queryError # Null

(***************************************************************************)
(* updateNodeData on a node whose rules write a key that has rules of its  *)
(* own: a WHERE node is edited, its rules are drawn from the NodeEffect    *)
(* type and can rewrite FROM.selectedTable, the trigger of the registry's  *)
(* FROM rule.                                                              *)
(***************************************************************************)
CascadeTargets ==
  << [targetNodeValues |-> {"FROM"}, action |-> "update",
      configKey |-> "selectedTable", newValue |-> "public.u"],
     [targetNodeValues |-> {"FROM", "WHERE"}, action |-> "update",
      configKey |-> "alias", newValue |-> "r"],
     [targetNodeValues |-> {"SELECT"}, action |-> "update",
      configKey |-> "selectedColumns", newValue |-> <<"public.u.x">>],
     [targetNodeValues |-> {"WHERE"}, action |-> "reset",
      configKey |-> "conditions", newValue |-> <<>>],
     [targetNodeValues |-> {"FROM"}, action |-> "validate"] >>

CascadeRules ==
  { [trigger |-> [nodeValue |-> "WHERE", configKey |-> key],
     targets |-> [i \in DOMAIN pick |-> CascadeTargets[pick[i]]]] :
      key \in {"conditions", "alias"},
      pick \in UNION { [1..m -> DOMAIN CascadeTargets] : m \in 1..MaxTargetCount } }

\* the canvas: SELECT with a column of t, FROM t, and the edited WHERE node
CascadeNodes ==
  << GenNode(1, [label |-> "SELECT",
                 config |-> [selectedColumns |-> <<"public.t.x">>]]),
     GenNode(2, [label |-> "FROM", config |-> [selectedTable |-> "public.t"]]),
     GenNode(3, [label |-> "WHERE", config |-> [conditions |-> <<>>]]) >>

CascadePatches ==
  { << <<"conditions", <<Cond1>> >> >>,
    << <<"alias", "w">> >>,
    << <<"conditions", <<Cond1>> >>, <<"alias", "w">> >> }

\* updateNodeData(nodeId, config) on the WHERE node
UpdateWhere ==
  /\ call = NoCall
  /\ \E effects \in UNION { [1..n -> CascadeRules] : n \in 0..MaxRuleCount },
        patch \in CascadePatches :
       LET merged == MergedNodes(CascadeNodes, 3, patch)
       IN call' = [ fn      |-> "updateNodeData",
                    edited  |-> "WHERE",
                    effects |-> effects,
                    keys    |-> ObjectKeys(patch),
                    given   |-> merged,
                    result  |-> RulesPerKey(effects, FindNode(merged, 3),
                                            ObjectKeys(patch), merged) ]
  /\ UNCHANGED storeVars

SpecCascade == Init /\ [][UpdateWhere]_vars

IsUpdateWhere == call.fn = "updateNodeData" /\ "edited" \in DOMAIN call

\* the keys of a node labelled l that the fired targets of the edited node write
WrittenByEdited(fired, l) ==
  { c \in {"selectedTable", "selectedColumns", "alias", "conditions"} :
      WritesTo(fired, l, c) # {} }

\* C28: one updateNodeData call runs the rules of the edited node for the
\* edited keys and nothing else: it returns, and a configuration key of a
\* node differs afterwards only if one of those rules writes it; a key
\* written by a rule does not fire the rules of the written node's keyword.
C28_EffectsDoNotCascade ==
  IsUpdateWhere =>
    LET fired == FiredTargets(call.effects, call.edited, call.keys)
    IN /\ Len(call.result) = Len(call.given)
       /\ \A i \in DOMAIN call.given :
            LET old == call.given[i].data.config
                new == call.result[i].data.config
                written == WrittenByEdited(fired, call.given[i].data.label)
            IN /\ DOMAIN new = DOMAIN old \cup written
               /\ \A c \in DOMAIN new \ written : new[c] = old[c]

\* the edit of WHERE.conditions rewrote FROM.selectedTable; the registry's
\* FROM rule for selectedTable, which resets the columns of SELECT, did not run
C28_Witness ==
  /\ IsUpdateWhere
  /\ call.given[2].data.config.selectedTable = "public.t"
  /\ call.result[2].data.config.selectedTable = "public.u"
  /\ call.result[1].data.config.selectedColumns = <<"public.t.x">>
  /\ call.result[3].data.config.conditions = <<Cond1>>

\* C29: while the store holds a session, every execute request in flight
\* carries the sessionId of that session, and no answer to a request is
\* 'Invalid or expired session' while the server knows the store's session.
C29_RequestsCarrySessionId ==
  /\ connectionInfo.sessionId # Null =>
       \A r \in inFlight :
         "sessionId" \in DOMAIN r.body /\ r.body.sessionId = connectionInfo.sessionId
  /\ (lastOp.op = "response" /\ connectionInfo.sessionId \in connections) =>
       lastOp.status # 401

\* a request sent with a connected session, without sessionId in its body,
\* was rejected by the session check of /query
C29_ConnectedRequestRejected ==
  /\ lastOp.op = "response"
  /\ lastOp.status = 401
  /\ connectionInfo.sessionId \in connections
  /\ queryError = "Invalid or expired session"
  /\ generatedSQL = "SELECT *"

(***************************************************************************)
(* Paths of legal connections from a SELECT node over the registry         *)
(***************************************************************************)
MaxPathLen == 3

\* the labels generateSQL's switch has a case for
EmittingKeywords ==
  {"SELECT", "DISTINCT", "FROM", "WHERE", "GROUP BY", "HAVING", "ORDER BY",
   "LIMIT", "OFFSET"} \cup JoinKeywords \cup AggregateKeywords

\* a SELECT node is dropped on the canvas
StartPath ==
  /\ call = NoCall
  /\ call' = [fn |-> "onConnect", path |-> <<"SELECT">>]
  /\ UNCHANGED storeVars

\* a node of another keyword is dropped and onConnect accepts the edge from
\* the last node of the path to it
ExtendPath(k) ==
  /\ call.fn = "onConnect"
  /\ Len(call.path) < MaxPathLen
  /\ ~Includes(call.path, k.value)
  /\ allowedEdge(RefOf(Keyword(call.path[Len(call.path)])), RefOf(k))
  /\ call' = [call EXCEPT !.path = Append(@, k.value)]
  /\ UNCHANGED storeVars

SpecPaths == Init /\ [][StartPath \/ \E k \in Keywords : ExtendPath(k)]_vars

\* the keywords a path of accepted edges leads to from the keywords in S
RECURSIVE ReachableFrom(_)
ReachableFrom(S) ==
  LET next == S \cup { k.value : k \in { t \in Keywords :
                         \E a \in S : allowedEdge(RefOf(Keyword(a)), RefOf(t)) } }
  IN IF next = S THEN S ELSE ReachableFrom(next)

IsPath == call.fn = "onConnect"

\* C30: every keyword generateSQL has an emission rule for is a keyword of
\* the registry that a path of edges accepted by allowedEdge reaches from
\* SELECT.
C30_EveryEmittingKeywordReachable ==
  IsPath =>
    \A v \in EmittingKeywords :
      /\ \E k \in Keywords : k.value = v
      /\ v \in ReachableFrom({"SELECT"})

\* a full path of legal connections, while no aggregate keyword is the
\* target of any accepted edge and OFFSET is no keyword of the registry
C30_AggregatesAndOffsetOutOfReach ==
  /\ IsPath
  /\ call.path = <<"SELECT", "FROM", "LIMIT">>
  /\ \A v \in AggregateKeywords :
       /\ v \notin ReachableFrom({"SELECT"})
       /\ \A k \in Keywords : ~allowedEdge(RefOf(k), RefOf(Keyword(v)))
  /\ \A k \in Keywords : k.value # "OFFSET"
  /\ EmittingKeywords \ (AggregateKeywords \cup {"OFFSET"}) \subseteq ReachableFrom({"SELECT"})
====
